---- MODULE Spec2Model ----
(***************************************************************************)
(* A model of the conversational car-recommendation backend                *)
(* (src/llm/backend): the /chat turn handler of main.py with its           *)
(* process-wide session maps, and the pure stages it calls (filter merge,  *)
(* query understanding, expansion trigger, retrieval with its unfiltered   *)
(* retry, de-duplication, refinement).                                     *)
(*                                                                         *)
(* Python values are modelled as follows.                                  *)
(*   str        a sequence of one-character strings, <<"h","a","a","n">>   *)
(*   None       the record [t |-> "none"]                                  *)
(*   dict       [t |-> "dict", v |-> f], f a function from keys to values  *)
(*   a value of unknown type (a payload field) is tagged: Str(s), Num(n),  *)
(*   None                                                                  *)
(*   filter values are strings; "null" stands for a JSON null              *)
(***************************************************************************)
EXTENDS Integers, Sequences, FiniteSets, TLC

VARIABLES
    session_histories,  \* main.py:45  session id -> list of (query, answer)
    session_chains,     \* main.py:44  chain key -> chain (its memory)
    turns,              \* the /chat calls in flight: request id -> frame
    running,            \* the request the event loop is executing, 0 if none
    nsub,               \* number of requests submitted so far
    last,               \* outcome of the /chat call that finished last
    log,                \* history variable: committed turns per session
    env,                \* the process environment (keys, input domains)
    hin, hout, hpc      \* input, output and position of a function under test

tvars == <<session_histories, session_chains, turns, running, nsub, last, log, env>>
hvars == <<hin, hout, hpc>>
vars == <<session_histories, session_chains, turns, running, nsub, last, log, env,
          hin, hout, hpc>>

-----------------------------------------------------------------------------
(* Python values *)

None == [t |-> "none"]
Dict(f) == [t |-> "dict", v |-> f]
Str(s) == [t |-> "str", v |-> s]
Num(n) == [t |-> "num", v |-> n]
EmptyMap == [k \in {} |-> "null"]

\* Python truthiness of an Optional[dict]: None and {} are falsy.
Truthy(x) == x.t = "dict" /\ DOMAIN x.v # {}

\* dict.get(key, default)
Get(md, key, default) == IF key \in DOMAIN md THEN md[key] ELSE default

\* Python truthiness of a payload value.
TruthyVal(x) ==
    CASE x.t = "str" -> x.v # <<>>
      [] x.t = "num" -> x.v # 0
      [] OTHER -> FALSE

-----------------------------------------------------------------------------
(* Strings *)

Range(s) == {s[i] : i \in 1..Len(s)}

Upper == <<"A","B","C","D","E","F","G","H","I","J","K","L","M",
           "N","O","P","Q","R","S","T","U","V","W","X","Y","Z">>
LowerOf == <<"a","b","c","d","e","f","g","h","i","j","k","l","m",
             "n","o","p","q","r","s","t","u","v","w","x","y","z">>

\* str.lower() on one character: A-Z are mapped, every other one is kept.
LowerChar(c) ==
    IF \E i \in 1..26 : Upper[i] = c
    THEN LowerOf[CHOOSE i \in 1..26 : Upper[i] = c]
    ELSE c

Lower(s) == [i \in 1..Len(s) |-> LowerChar(s[i])]

IsSpace(c) == c \in {" ", "\t", "\n"}

\* str.strip(): leading and trailing whitespace removed.
Strip(s) ==
    LET keep == {i \in 1..Len(s) : ~IsSpace(s[i])}
    IN  IF keep = {} THEN <<>>
        ELSE SubSeq(s, CHOOSE i \in keep : \A j \in keep : i <= j,
                       CHOOSE i \in keep : \A j \in keep : j <= i)

\* str.replace of one character by another.
ReplaceChar(s, old, new) == [i \in 1..Len(s) |-> IF s[i] = old THEN new ELSE s[i]]

\* Python's `sub in s`.
Contains(s, sub) ==
    \E i \in 0..(Len(s) - Len(sub)) : SubSeq(s, i + 1, i + Len(sub)) = sub

-----------------------------------------------------------------------------
(* Filter merge *)

FilterKeys == {"price_max", "body_type", "fuel_type"}

FilterValues(k) ==
    CASE k = "price_max" -> {"10", "15", "null"}
      [] k = "body_type" -> {"SUV", "Sedan", "null"}
      [] OTHER -> {"Petrol", "null"}

\* Every sparse filter map over FilterKeys.
FilterMaps ==
    UNION {{f \in [D -> {"10", "15", "SUV", "Sedan", "Petrol", "null"}] :
                \A k \in D : f[k] \in FilterValues(k)} : D \in SUBSET FilterKeys}

\* A plausible slip: the auto-extracted value wins on a shared key.
UpdateKeepBase(base, other) ==
    [k \in DOMAIN base \cup DOMAIN other |->
        IF k \in DOMAIN base THEN base[k] ELSE other[k]]

\* A plausible slip: a shared key accumulates both values instead of being
\* overwritten.
UpdateAccumulate(base, other) ==
    [k \in DOMAIN base \cup DOMAIN other |->
        IF k \in DOMAIN other
        THEN (IF k \in DOMAIN base /\ base[k] # other[k]
              THEN base[k] \o "," \o other[k] ELSE other[k])
        ELSE base[k]]

\* dict.update: the keys of both, the value of `other` where it has one.
Update(base, other) ==
    [k \in DOMAIN base \cup DOMAIN other |->
        IF k \in DOMAIN other THEN other[k] ELSE base[k]]

\* main.py:145-147. auto is a dict value (the .copy() of anything else raises,
\* see Merge); explicit is request.filters, an Optional[dict].
MergeFinalFilters(auto, explicit) ==
    IF Truthy(explicit) THEN Dict(Update(auto.v, explicit.v)) ELSE Dict(auto.v)

\* A plausible slip: the explicit filters replace the auto-extracted ones.
merge_filters_replace(auto_filters, manual_filters) ==
    IF ~Truthy(manual_filters) THEN auto_filters ELSE manual_filters

\* query_parser.py:164-185
merge_filters(auto_filters, manual_filters) ==
    IF ~Truthy(manual_filters)
    THEN auto_filters
    ELSE Dict(Update(auto_filters.v, manual_filters.v))

-----------------------------------------------------------------------------
(* Query understanding (query_understanding.py:104-215)                    *)
(*                                                                         *)
(* The text a model returns is a sequence of symbols:                      *)
(*   "{" "}"   the braces                                                  *)
(*   "f"       the member name  "filters":  , to be followed by a value    *)
(*   "n" "s"   the values null and a string literal                        *)
(*   "k" "K"   the member  "search_keywords": <keywords>                   *)
(*   "i"       the member  "combined_intent": <intent>                     *)
(*   "p" "b"   the members "price_max": 15.0  and  "body_type": "SUV"      *)
(*   "x"       any text that is no JSON                                    *)
(*   " "       white space                                                 *)
(* json.loads accepts  Obj ::= "{" Member* "}",                            *)
(*   Member ::= "k" | "K" | "i" | "p" | "b" | "f" Value,                   *)
(*   Value ::= Obj | "n" | "s", white space allowed between symbols.       *)

KwDerived == <<"s","u","v">>
KwVague == <<"t","e","l","l"," ","m","e"," ","m","o","r","e">>
IntentDerived == <<"w","a","n","t","s"," ","s","u","v">>

\* f @@ (k :> v) with the last value of a repeated key winning, as json.loads
Put(f, k, v) == [x \in DOMAIN f \cup {k} |-> IF x = k THEN v ELSE f[x]]

\* The member a scalar symbol decodes to.
MemberKey(c) ==
    CASE c \in {"k", "K"} -> "search_keywords"
      [] c = "i" -> "combined_intent"
      [] c = "p" -> "price_max"
      [] OTHER -> "body_type"

MemberValue(c) ==
    CASE c = "k" -> Str(KwDerived)
      [] c = "K" -> Str(KwVague)
      [] c = "i" -> Str(IntentDerived)
      [] c = "p" -> Str(<<"1","5">>)
      [] OTHER -> Str(<<"S","U","V">>)

ParseFail == [ok |-> FALSE, next |-> 0, val |-> EmptyMap]

RECURSIVE ParseMembers(_, _, _)
\* The members of an object from position i on, up to its closing brace.
ParseMembers(s, i, acc) ==
    IF i > Len(s) THEN ParseFail
    ELSE CASE s[i] = " " -> ParseMembers(s, i + 1, acc)
           [] s[i] = "}" -> [ok |-> TRUE, next |-> i + 1, val |-> acc]
           [] s[i] \in {"k", "K", "i", "p", "b"} ->
                ParseMembers(s, i + 1, Put(acc, MemberKey(s[i]), MemberValue(s[i])))
           [] s[i] = "f" ->
                IF i + 1 > Len(s) THEN ParseFail
                ELSE CASE s[i + 1] = "n" ->
                            ParseMembers(s, i + 2, Put(acc, "filters", None))
                       [] s[i + 1] = "s" ->
                            ParseMembers(s, i + 2, Put(acc, "filters", Str(<<"s">>)))
                       [] s[i + 1] = "{" ->
                            LET inner == ParseMembers(s, i + 2, EmptyMap)
                            IN  IF inner.ok
                                THEN ParseMembers(s, inner.next,
                                                  Put(acc, "filters", Dict(inner.val)))
                                ELSE ParseFail
                       [] OTHER -> ParseFail
           [] OTHER -> ParseFail

RECURSIVE SkipSpace(_, _)
SkipSpace(s, i) == IF i <= Len(s) /\ s[i] = " " THEN SkipSpace(s, i + 1) ELSE i

\* json.loads(s): the decoded object, or a failure (a JSONDecodeError).
JsonLoads(s) ==
    LET i == SkipSpace(s, 1)
    IN  IF i > Len(s) \/ s[i] # "{" THEN ParseFail
        ELSE LET r == ParseMembers(s, i + 1, EmptyMap)
             IN  IF r.ok /\ SkipSpace(s, r.next) = Len(s) + 1 THEN r ELSE ParseFail

\* str.find / str.rfind of one character, 1-based; 0 when it does not occur.
Find(s, c) ==
    IF c \in Range(s) THEN CHOOSE i \in 1..Len(s) : s[i] = c /\ \A j \in 1..(i - 1) : s[j] # c
    ELSE 0
RFind(s, c) ==
    IF c \in Range(s)
    THEN CHOOSE i \in 1..Len(s) : s[i] = c /\ \A j \in (i + 1)..Len(s) : s[j] # c
    ELSE 0

\* The filters of a decoded object as a filter map: scalars keep their text,
\* anything else is an opaque value.
AsFilterMap(obj) ==
    [k \in DOMAIN obj |->
        CASE k = "price_max" -> "15"
          [] k = "body_type" -> "SUV"
          [] k = "filters" -> (IF obj[k].t = "none" THEN "null" ELSE "obj")
          [] OTHER -> "text"]

\* The decoded object as Python sees it: the filters member, when it is an
\* object, becomes a filter map.
AsUnderstanding(obj) ==
    [k \in DOMAIN obj |->
        IF k = "filters" /\ obj[k].t = "dict" THEN Dict(AsFilterMap(obj[k].v)) ELSE obj[k]]

\* query_understanding.py:176-181, 190-195, 210-215
Fallback(current_query, note) ==
    [combined_intent |-> Str(current_query),
     filters |-> Dict(EmptyMap),
     search_keywords |-> Str(current_query),
     context_notes |-> note]

\* query_understanding.py:143-175: the provider the call goes to.
UnderstandingProvider(groq, gemini) ==
    IF groq THEN "groq" ELSE IF gemini THEN "gemini" ELSE "none"

HistoryWindow == 3
AnswerBrief == 100
S_Lakhs == <<"l", "a", "k", "h", "s">>

\* A plausible slip: the whole history is put into the prompt.
history_lines_all(chat_history) ==
    [i \in 1..Len(chat_history) |->
        <<[role |-> "User", text |-> chat_history[i][1]],
          [role |-> "Assistant", text |-> chat_history[i][2]]>>]

\* query_understanding.py:120-134: the lines of the prompt's history, by
\* turn. Each of the last three turns gives a User line with the query; an
\* answer without "lakhs" gives an Assistant line with its first 100 symbols,
\* one with "lakhs" a line with the first price that matches
\* ₹(\d+(?:\.\d+)?)\s*lakhs? , or no line when none matches.
history_lines(chat_history) ==
    LET n == Len(chat_history)
        first == IF n > HistoryWindow THEN n - HistoryWindow + 1 ELSE 1
        Digits == {"0", "1", "2", "3", "4", "5", "6", "7", "8", "9"}
        Run(a, i, S) ==
            CHOOSE k \in 0..Len(a) :
                /\ \A j \in i..(i + k - 1) : j <= Len(a) /\ a[j] \in S
                /\ ~(i + k <= Len(a) /\ a[i + k] \in S)
        \* <<d, e, l>>: the digits after position i, the end of the price,
        \* and the position after the blanks that follow it
        Scan(a, i) ==
            LET d == Run(a, i + 1, Digits)
                p == i + 1 + d
                e == IF p + 1 <= Len(a) /\ a[p] = "."
                     THEN (LET f == Run(a, p + 1, Digits) IN IF f > 0 THEN p + 1 + f ELSE p)
                     ELSE p
            IN  <<d, e, e + Run(a, e, {" "})>>
        Prices(a) ==
            {i \in 1..Len(a) :
                a[i] = "₹" /\
                LET m == Scan(a, i)
                IN  /\ m[1] > 0
                    /\ m[3] + 3 <= Len(a)
                    /\ SubSeq(a, m[3], m[3] + 3) = <<"l", "a", "k", "h">>}
        Assistant(a) ==
            IF Contains(a, S_Lakhs)
            THEN LET P == Prices(a)
                 IN  IF P = {} THEN <<>>
                     ELSE LET i == CHOOSE m \in P : \A j \in P : m <= j
                          IN  <<[role |-> "Assistant",
                                 text |-> SubSeq(a, i, Scan(a, i)[2] - 1)]>>
            ELSE <<[role |-> "Assistant",
                    text |-> (IF Len(a) > AnswerBrief THEN SubSeq(a, 1, AnswerBrief) ELSE a)
                                \o <<".", ".", ".">>]>>
    IN  [i \in 1..(n - first + 1) |->
            <<[role |-> "User", text |-> chat_history[first + i - 1][1]]>>
                \o Assistant(chat_history[first + i - 1][2])]

\* query_understanding.py:119-205: the body of the try block. `outcome` is
\* what the provider does when called: [kind |-> "raise"], [kind |-> "text",
\* text |-> s], or [kind |-> "none"] (a response without content).
understand_try_body(current_query, groq, gemini, outcome) ==
    LET provider == UnderstandingProvider(groq, gemini)
    IN  IF provider = "none"
        THEN [kind |-> "return", calls |-> 0,
              result |-> Fallback(current_query, "No LLM available for query understanding")]
        ELSE IF outcome.kind # "text"
        THEN [kind |-> "raise", calls |-> 1, result |-> EmptyMap]
        ELSE LET result_text == Strip(outcome.text)
                 start_idx == Find(result_text, "{")
                 end_idx == RFind(result_text, "}")
             IN  IF start_idx = 0 \/ end_idx = 0
                 THEN [kind |-> "return", calls |-> 1,
                       result |-> Fallback(current_query, "Failed to parse LLM response")]
                 ELSE LET decoded == JsonLoads(SubSeq(result_text, start_idx, end_idx))
                      IN  IF decoded.ok
                          THEN [kind |-> "return", calls |-> 1,
                                result |-> AsUnderstanding(decoded.val)]
                          ELSE [kind |-> "raise", calls |-> 1, result |-> EmptyMap]

\* A plausible slip: an error of the understanding is not caught.
understand_query_uncaught(current_query, chat_history, groq, gemini, outcome) ==
    LET body == understand_try_body(current_query, groq, gemini, outcome)
    IN  [kind |-> body.kind,
         calls |-> body.calls,
         prompts |-> [c \in 1..body.calls |->
                        [provider |-> UnderstandingProvider(groq, gemini),
                         history |-> history_lines(chat_history)]],
         result |-> body.result]

\* A plausible slip: after a failed Groq call the Gemini model is asked.
understand_query_fall_through(current_query, chat_history, groq, gemini, outcome) ==
    LET body == understand_try_body(current_query, groq, gemini, outcome)
        again == body.kind = "raise" /\ groq /\ gemini
    IN  [kind |-> "return",
         calls |-> IF again THEN 2 ELSE body.calls,
         prompts |-> [c \in 1..(IF again THEN 2 ELSE body.calls) |->
                        [provider |-> IF c = 2 THEN "gemini"
                                      ELSE UnderstandingProvider(groq, gemini),
                         history |-> history_lines(chat_history)]],
         result |-> IF body.kind = "raise"
                    THEN Fallback(current_query, "Error") ELSE body.result]

\* query_understanding.py:118-215: the try block and its except clause. The
\* result carries the calls made, and for each its provider and the history
\* lines of its prompt.
understand_query_with_llm(current_query, chat_history, groq, gemini, outcome) ==
    LET body == understand_try_body(current_query, groq, gemini, outcome)
    IN  [kind |-> "return",
         calls |-> body.calls,
         prompts |-> [c \in 1..body.calls |->
                        [provider |-> UnderstandingProvider(groq, gemini),
                         history |-> history_lines(chat_history)]],
         result |-> IF body.kind = "raise"
                    THEN Fallback(current_query, "Error") ELSE body.result]

-----------------------------------------------------------------------------
(* Retrieval (retriever.py:151-476)                                        *)

\* The values of a filter map are texts: "null" is None, "true" and "false"
\* the booleans, a number its digits, and a list one of the literals below.
ListLiterals ==
    ("[]" :> <<>>) @@ ("[SUV,Sedan]" :> <<"SUV", "Sedan">>)
        @@ ("[,SUV]" :> <<"", "SUV">>) @@ ("[Petrol]" :> <<"Petrol">>)

\* Python's `not v`.
Falsy(v) == v \in {"null", "", "0", "false", "[]"}

\* A plausible slip: a list is matched as a whole.
MatchConditionNoCollapse(filters, k) ==
    IF k \in DOMAIN filters /\ ~Falsy(filters[k])
    THEN <<[key |-> k, op |-> "match", value |-> filters[k]]>>
    ELSE <<>>

\* retriever.py:218-231 (and 234-259, 297-309): the equality condition of an
\* enumerated field; a list stands for its first element.
MatchCondition(filters, k) ==
    IF k \in DOMAIN filters /\ ~Falsy(filters[k])
    THEN LET value == IF filters[k] \in DOMAIN ListLiterals
                      THEN ListLiterals[filters[k]][1]
                      ELSE filters[k]
         IN  IF Falsy(value) THEN <<>>
             ELSE <<[key |-> k, op |-> "match", value |-> value]>>
    ELSE <<>>

\* retriever.py:196-353: the conditions of the predicate in the order they
\* are appended, None when there is none, or the error of an int() or
\* float() whose argument is no number.
build_qdrant_filter(filters) ==
    LET get(k) == IF k \in DOMAIN filters THEN filters[k] ELSE "null"
        price(v, op) ==
            IF Falsy(v) THEN <<>>
            ELSE <<[key |-> "price_lakhs", op |-> op, value |-> v]>>
        range(k, key, op) ==
            IF k \in DOMAIN filters
            THEN <<[key |-> key, op |-> op, value |-> filters[k]]>>
            ELSE <<>>
        flag(k) ==
            IF k \in DOMAIN filters /\ ~Falsy(filters[k])
            THEN <<[key |-> k, op |-> "match", value |-> "true"]>>
            ELSE <<>>
        price_max == IF Falsy(get("price_max")) THEN get("price_lakhs_max")
                     ELSE get("price_max")
        price_min == IF Falsy(get("price_min")) THEN get("price_lakhs_min")
                     ELSE get("price_min")
        conditions ==
            price(price_max, "lte") \o price(price_min, "gte")
                \o MatchCondition(filters, "body_type")
                \o MatchCondition(filters, "fuel_type")
                \o MatchCondition(filters, "segment")
                \o range("year_min", "year", "gte") \o range("year_max", "year", "lte")
                \o range("mileage_min", "mileage", "gte")
                \o range("power_bhp_min", "power_bhp", "gte")
                \o MatchCondition(filters, "transmission_type")
                \o range("airbags_min", "airbags", "gte")
                \o flag("abs") \o flag("esc") \o flag("sunroof") \o flag("cruise_control")
                \o flag("apple_carplay") \o flag("adaptive_cruise")
                \o flag("lane_keep_assist") \o flag("parking_camera")
                \o flag("keyless_entry") \o flag("connected_tech")
        number(v) == v \in {"0", "5", "7", "10", "15", "2020", "2022", "true", "false"}
    IN  IF \E i \in 1..Len(conditions) :
              conditions[i].op \in {"lte", "gte"} /\ ~number(conditions[i].value)
        THEN [t |-> "raise", msg |-> <<"i", "n", "t", "(", ")">>]
        ELSE IF conditions = <<>> THEN None
        ELSE [t |-> "filter", must |-> conditions]

\* retriever.py:380  build_qdrant_filter(filters) if filters else None
RetrieverFilter(filters) ==
    IF Truthy(filters) THEN build_qdrant_filter(filters.v) ELSE None

Msg_IndexRequired == <<"I","n","d","e","x"," ","r","e","q","u","i","r","e","d"," ","b","u","t"," ","n","o","t"," ","f","o","u","n","d">>
Msg_NotFound == <<"N","o","t"," ","f","o","u","n","d",":"," ","C","o","l","l","e","c","t","i","o","n">>
Msg_Timeout == <<"t","i","m","e","d"," ","o","u","t">>

S_IndexRequired == <<"I","n","d","e","x"," ","r","e","q","u","i","r","e","d">>
S_NotFound == <<"n","o","t"," ","f","o","u","n","d">>

\* retriever.py:437: the test for the missing-index signal.
IsMissingIndexError(error_msg) ==
    Contains(error_msg, S_IndexRequired) \/ Contains(Lower(error_msg), S_NotFound)

RETRIEVAL_K == 8

\* retriever.py:417-431 and 441-447: both searches are made with
\* "limit": self.k, and the search layer returns the `limit` nearest of the
\* points that match, in relevance order.
query_points(points, limit) ==
    IF Len(points) > limit THEN SubSeq(points, 1, limit) ELSE points

\* retriever.py:456-470: the points of a result as documents.
DocsOf(points) ==
    [i \in 1..Len(points) |->
        [page_content |->
            Get(points[i], "page_content", Get(points[i], "description", Str(<<>>))).v,
         metadata |-> [k \in DOMAIN points[i] \ {"page_content"} |-> points[i][k]]]]

\* A plausible slip: the failed search is not repeated.
get_relevant_documents_no_retry(qdrant_filter, embed_ok, r1, r2) ==
    IF ~embed_ok
    THEN [kind |-> "raise", msg |-> <<"e","m","b","e","d">>, searches |-> <<>>, docs |-> <<>>]
    ELSE IF r1.kind = "ok"
    THEN [kind |-> "ok", msg |-> <<>>, searches |-> <<qdrant_filter>>, docs |-> DocsOf(r1.points)]
    ELSE [kind |-> "raise", msg |-> r1.msg, searches |-> <<qdrant_filter>>, docs |-> <<>>]

\* A plausible slip: the retry keeps the predicate.
get_relevant_documents_same_filter(qdrant_filter, embed_ok, r1, r2) ==
    IF ~embed_ok
    THEN [kind |-> "raise", msg |-> <<"e","m","b","e","d">>, searches |-> <<>>, docs |-> <<>>]
    ELSE IF r1.kind = "ok"
    THEN [kind |-> "ok", msg |-> <<>>, searches |-> <<qdrant_filter>>, docs |-> DocsOf(r1.points)]
    ELSE IF IsMissingIndexError(r1.msg)
    THEN IF r2.kind = "ok"
         THEN [kind |-> "ok", msg |-> <<>>, searches |-> <<qdrant_filter, qdrant_filter>>,
               docs |-> DocsOf(r2.points)]
         ELSE [kind |-> "raise", msg |-> r2.msg, searches |-> <<qdrant_filter, qdrant_filter>>,
               docs |-> <<>>]
    ELSE [kind |-> "raise", msg |-> r1.msg, searches |-> <<qdrant_filter>>, docs |-> <<>>]

\* retriever.py:409-476  CustomQdrantRetriever._get_relevant_documents.
\* embed_ok: embed_query returns; r1, r2: what the search layer answers to
\* the first and to the second query_points call. `searches` lists the
\* predicate of each query_points call made (None: no predicate).
get_relevant_documents(qdrant_filter, embed_ok, r1, r2) ==
    IF ~embed_ok
    THEN [kind |-> "raise", msg |-> <<"e","m","b","e","d">>, searches |-> <<>>, docs |-> <<>>]
    ELSE IF r1.kind = "ok"
    THEN [kind |-> "ok", msg |-> <<>>, searches |-> <<qdrant_filter>>, docs |-> DocsOf(r1.points)]
    ELSE IF IsMissingIndexError(r1.msg)
    THEN IF r2.kind = "ok"
         THEN [kind |-> "ok", msg |-> <<>>, searches |-> <<qdrant_filter, None>>,
               docs |-> DocsOf(r2.points)]
         ELSE [kind |-> "raise", msg |-> r2.msg, searches |-> <<qdrant_filter, None>>,
               docs |-> <<>>]
    ELSE [kind |-> "raise", msg |-> r1.msg, searches |-> <<qdrant_filter>>, docs |-> <<>>]
-----------------------------------------------------------------------------
(* De-duplication of the retrieved documents (chain.py:437-518)            *)
(* A document is [page_content, metadata]; metadata maps payload keys to   *)
(* tagged values.                                                          *)

SourceContentMax == 200

Unknown == <<"U","n","k","n","o","w","n">>

\* chain.py:458-459  s.replace("_", " ").strip().lower()
CleanName(s) == Lower(Strip(ReplaceChar(s, "_", " ")))

\* A plausible slip: the names are compared without normalising them.
ModelKeyRaw(make, model) == make \o <<"|">> \o model

\* chain.py:458-460  model_key = f"{make_clean}|{model_clean}"
ModelKey(make, model) == CleanName(make) \o <<"|">> \o CleanName(model)

OptionalCarKeys ==
    {"year", "body_type", "segment", "fuel_type", "power_bhp", "airbags",
     "transmission_type"}

\* chain.py:473-506  (a Document carries no score attribute, so 509-510 add
\* nothing)
CarInfo(md, make, model) ==
    LET hasVariant == "variant" \in DOMAIN md /\ TruthyVal(md["variant"])
        name == IF hasVariant
                THEN make \o <<" ">> \o model \o <<" ">> \o md["variant"].v
                ELSE make \o <<" ">> \o model
        keys == {"id", "name", "make", "model", "price", "mileage"}
                \cup (IF hasVariant THEN {"variant"} ELSE {})
                \cup (OptionalCarKeys \cap DOMAIN md)
    IN  [k \in keys |->
            CASE k = "id" -> Get(md, "id", Str(<<>>))
              [] k = "name" -> Str(name)
              [] k = "make" -> Str(make)
              [] k = "model" -> Str(model)
              [] k = "price" -> Get(md, "price_lakhs", Num(0))
              [] k = "mileage" -> Get(md, "mileage", Num(0))
              [] OTHER -> md[k]]

\* chain.py:515-518
SourceInfo(doc) ==
    [content |-> IF Len(doc.page_content) > SourceContentMax
                 THEN SubSeq(doc.page_content, 1, SourceContentMax) \o <<".", ".", ".">>
                 ELSE doc.page_content,
     metadata |-> doc.metadata]

RECURSIVE DedupLoop(_, _, _, _, _)
\* chain.py:439-518: the loop over source_documents from document i on.
DedupLoop(docs, i, seen_models, recommended, sources) ==
    IF i > Len(docs)
    THEN [kind |-> "ok", recommended |-> recommended, sources |-> sources]
    ELSE LET md == docs[i].metadata
             make == Get(md, "make", Str(Unknown))
             model == Get(md, "model", Str(Unknown))
         IN  IF make.t # "str" \/ model.t # "str"
             THEN \* None.replace / int.replace
                  [kind |-> "raise", exc |-> "AttributeError"]
             ELSE LET model_key == ModelKey(make.v, model.v)
                  IN  IF model_key \in seen_models
                      THEN DedupLoop(docs, i + 1, seen_models, recommended, sources)
                      ELSE DedupLoop(docs, i + 1, seen_models \cup {model_key},
                                     Append(recommended, CarInfo(md, make.v, model.v)),
                                     Append(sources, SourceInfo(docs[i])))

\* A plausible slip: a source is listed for every document, a
\* recommendation only for the first of each key.
DedupSourcesAll(docs) ==
    LET d == DedupLoop(docs, 1, {}, <<>>, <<>>)
    IN  IF d.kind = "ok"
        THEN [d EXCEPT !.sources = [i \in 1..Len(docs) |-> SourceInfo(docs[i])]]
        ELSE d

\* A plausible slip: a kept recommendation is described by the last document
\* of its key instead of the first.
DedupDetailOfLast(docs) ==
    LET d == DedupLoop(docs, 1, {}, <<>>, <<>>)
        KeyOf(md) == ModelKey(Get(md, "make", Str(Unknown)).v,
                              Get(md, "model", Str(Unknown)).v)
        LastOf(key) == CHOOSE i \in 1..Len(docs) :
                          /\ KeyOf(docs[i].metadata) = key
                          /\ \A j \in (i + 1)..Len(docs) : KeyOf(docs[j].metadata) # key
    IN  IF d.kind = "ok"
        THEN [d EXCEPT !.recommended =
                [n \in 1..Len(d.recommended) |->
                    LET md == docs[LastOf(ModelKey(d.recommended[n]["make"].v,
                                                   d.recommended[n]["model"].v))].metadata
                    IN  CarInfo(md, Get(md, "make", Str(Unknown)).v,
                                Get(md, "model", Str(Unknown)).v)]]
        ELSE d

Dedup(docs) == DedupLoop(docs, 1, {}, <<>>, <<>>)

-----------------------------------------------------------------------------
(* Query expansion (main.py:152-162, query_expansion.py:65-150)            *)

ExpansionMax == 3

\* main.py:157: the phrases that mark an utterance as vague.
VaguePhrases ==
    { <<"a","u","r"," ","b","a","t","a","o">>,
      <<"t","e","l","l"," ","m","e"," ","m","o","r","e">>,
      <<"a","n","y"," ","o","t","h","e","r">>,
      <<"h","a","a","n">> }

\* A plausible slip: the phrases are looked for in the derived keywords.
ExpansionTriggeredOnKeywords(query, search_keywords) ==
    \E phrase \in VaguePhrases : Contains(Lower(search_keywords), phrase)

\* A plausible slip: the utterance is not lower-cased before the search.
ExpansionTriggeredCaseSensitive(query, search_keywords) ==
    \E phrase \in VaguePhrases : Contains(query, phrase)

\* main.py:157, with the two strings in scope at that line.
ExpansionTriggered(query, search_keywords) ==
    \E phrase \in VaguePhrases : Contains(Lower(query), phrase)

RECURSIVE UniqueQueries(_, _, _, _)
\* query_expansion.py:119-125: the queries from position i on that are not
\* blank and were not seen before, compared lower-cased and stripped.
UniqueQueries(all_queries, i, seen, unique_queries) ==
    IF i > Len(all_queries) THEN unique_queries
    ELSE LET q_lower == Strip(Lower(all_queries[i]))
         IN  IF q_lower # <<>> /\ q_lower \notin seen
             THEN UniqueQueries(all_queries, i + 1, seen \cup {q_lower},
                                Append(unique_queries, all_queries[i]))
             ELSE UniqueQueries(all_queries, i + 1, seen, unique_queries)

\* query_expansion.py:65-132. `outcome` is what get_llm() and the call give:
\* [kind |-> "raise"], [kind |-> "nojson"] (a text without braces), or
\* [kind |-> "decoded", obj |-> o] with o the decoded object.
expand_query(original_query, outcome) ==
    IF outcome.kind # "decoded" THEN <<original_query>>
    ELSE LET expanded_queries == Get(outcome.obj, "expanded_queries", <<original_query>>)
             primary_query == Get(outcome.obj, "primary_query", original_query)
             unique_queries == UniqueQueries(<<primary_query>> \o expanded_queries, 1, {}, <<>>)
         IN  IF Len(unique_queries) > ExpansionMax
             THEN SubSeq(unique_queries, 1, ExpansionMax)
             ELSE unique_queries

\* A plausible slip: the last candidate is taken.
get_best_expanded_query_last(original_query, outcome) ==
    LET expanded == expand_query(original_query, outcome)
    IN  IF expanded # <<>> THEN expanded[Len(expanded)] ELSE original_query

\* query_expansion.py:135-150
get_best_expanded_query(original_query, outcome) ==
    LET expanded == expand_query(original_query, outcome)
    IN  IF expanded # <<>> THEN expanded[1] ELSE original_query

\* main.py:154-162: the query the chain is asked.
OptimizedQuery(search_keywords, expanded_query) ==
    IF expanded_query # <<>> /\ expanded_query # search_keywords
    THEN expanded_query
    ELSE search_keywords

-----------------------------------------------------------------------------
(* The answering model (model.py:48-112, 282-385) and the chain            *)
(* (chain.py:70-103, 264-286, 298-401)                                     *)

Msg_NoLLM == <<"N","o"," ","L","L","M"," ","c","o","n","f","i","g","u","r","e","d">>
S_ErrorPrefix == <<"E","r","r","o","r",":"," ">>

\* model.py:282-385. With a Groq key the Groq model is returned (its test
\* call cannot raise, see llm_invoke); with a Gemini key only, an Ollama
\* model is returned when the Ollama server answers; in every other case the
\* function ends in the ValueError of line 370.
get_llm(groq, gemini, ollama_ok) ==
    IF groq THEN [kind |-> "ok", llm |-> "groq"]
    ELSE IF gemini /\ ollama_ok THEN [kind |-> "ok", llm |-> "ollama"]
    ELSE [kind |-> "raise", msg |-> Msg_NoLLM]

\* llm.invoke(prompt). model.py:105-110: GroqLLM._generate turns an error
\* of the call into the text "Error: <message>"; an Ollama model lets the
\* error propagate. outcome: [kind |-> "raise", msg |-> m] or
\* [kind |-> "text", text |-> s].
llm_invoke(llm, outcome) ==
    IF outcome.kind = "raise" /\ llm = "groq"
    THEN [kind |-> "text", text |-> S_ErrorPrefix \o outcome.msg]
    ELSE outcome

\* One retrieval attempt: what embed_query and the two searches give.
Attempt(embed_ok, r1, r2) == [embed_ok |-> embed_ok, r1 |-> r1, r2 |-> r2]

\* chain.py:70-103 on a CustomQdrantRetriever: invoke, and when it raises,
\* one more retrieval (get_relevant_documents where the installed LangChain
\* has it, invoke otherwise), whose error propagates.
robust_retrieve(qdrant_filter, a1, a2) ==
    LET first == get_relevant_documents(qdrant_filter, a1.embed_ok, a1.r1, a1.r2)
        second == get_relevant_documents(qdrant_filter, a2.embed_ok, a2.r1, a2.r2)
    IN  IF first.kind = "ok"
        THEN [kind |-> "ok", msg |-> <<>>, attempts |-> 1, swallowed |-> <<>>,
              docs |-> first.docs]
        ELSE [kind |-> second.kind, msg |-> second.msg, attempts |-> 2,
              swallowed |-> first.msg, docs |-> second.docs]

MemoryMax == 10

\* chain.py:279-281
MemoryAppend(memory, question, answer) ==
    LET m == Append(memory, <<question, answer>>)
    IN  IF Len(m) > MemoryMax THEN SubSeq(m, Len(m) - MemoryMax + 1, Len(m)) ELSE m

\* A plausible slip: the chain is always handed the history of the session.
PromptHistoryOfSession(chat_history, memory) == chat_history

\* chain.py:424-425, 267: the history the prompt is built from.
PromptHistory(chat_history, memory) ==
    IF chat_history # <<>> THEN chat_history ELSE memory

PromptWindow == 5

\* chain.py:177-222: the turns the prompt's history is written from, each
\* as a Human line and an AI line.
format_chat_history(history) ==
    IF Len(history) > PromptWindow
    THEN SubSeq(history, Len(history) - PromptWindow + 1, Len(history))
    ELSE history

Apology ==
    <<"I"," ","a","p","o","l","o","g","i","z","e",","," ","b","u","t"," ","I"," ",
      "c","o","u","l","d","n","'","t"," ","g","e","n","e","r","a","t","e"," ","a"," ",
      "r","e","s","p","o","n","s","e",".">>

S_Answer == <<"A", "n", "s", "w", "e", "r", ":">>
S_Response == <<"R", "e", "s", "p", "o", "n", "s", "e", ":">>

RECURSIVE Remove(_, _)
\* Python's s.replace(sub, ""): the occurrences of sub are taken out from
\* left to right.
Remove(s, sub) ==
    IF Len(s) < Len(sub) THEN s
    ELSE IF SubSeq(s, 1, Len(sub)) = sub
         THEN Remove(SubSeq(s, Len(sub) + 1, Len(s)), sub)
         ELSE <<s[1]>> \o Remove(Tail(s), sub)

\* chain.py:337-401 on a one-line answer without markdown or list markers:
\* the emptiness test of line 348 comes before any stripping, the labels
\* are taken out at 355, the substitutions of 360-383 leave such a text as
\* it is, and 386-399 keep the stripped line, or no line at all when it is
\* blank. Apology is the first sentence of line 349.
post_process_answer(answer) ==
    IF answer = <<>> THEN Apology
    ELSE Strip(Remove(Remove(Strip(answer), S_Answer), S_Response))

-----------------------------------------------------------------------------
(* Refinement (refiner.py:82-210)                                          *)

\* refiner.py:82-104. init_groq_ok, init_gemini_ok: the client's
\* construction succeeds.
get_refinement_llm(groq, gemini, init_groq_ok, init_gemini_ok) ==
    IF groq /\ init_groq_ok THEN "groq"
    ELSE IF gemini /\ init_gemini_ok THEN "gemini"
    ELSE "none"

\* refiner.py:126-205: the body of the try block. outcome is what the
\* provider call gives: [kind |-> "raise"], [kind |-> "none"] (a response
\* without content, whose .strip() raises) or [kind |-> "text", text |-> s].
refine_try_body(rag_response, groq, gemini, init_groq_ok, init_gemini_ok, outcome) ==
    LET llm == get_refinement_llm(groq, gemini, init_groq_ok, init_gemini_ok)
    IN  IF llm = "none"
        THEN [kind |-> "return", calls |-> 0, answer |-> rag_response]
        ELSE IF outcome.kind = "text"
        THEN [kind |-> "return", calls |-> 1, answer |-> Strip(outcome.text)]
        ELSE [kind |-> "raise", calls |-> 1, answer |-> <<>>]

\* A plausible slip: an error of the refinement is not caught.
refine_response_uncaught(rag_response, groq, gemini, init_groq_ok, init_gemini_ok, outcome) ==
    refine_try_body(rag_response, groq, gemini, init_groq_ok, init_gemini_ok, outcome)

\* refiner.py:125-210: the try block and its except clause.
refine_response_with_llm(rag_response, groq, gemini, init_groq_ok, init_gemini_ok, outcome) ==
    LET body == refine_try_body(rag_response, groq, gemini, init_groq_ok, init_gemini_ok,
                                outcome)
    IN  IF body.kind = "raise"
        THEN [kind |-> "return", calls |-> body.calls, answer |-> rag_response]
        ELSE body

-----------------------------------------------------------------------------
(* The state after construction (main.py:44-48): no session, no chain, no  *)
(* call in flight.                                                         *)

NoOutcome == [kind |-> "none"]
DefaultEnv == [groq |-> TRUE, gemini |-> FALSE, profile |-> "full"]

TurnIdle ==
    /\ session_histories = EmptyMap
    /\ session_chains = EmptyMap
    /\ turns = EmptyMap
    /\ running = 0
    /\ nsub = 0
    /\ last = NoOutcome
    /\ log = EmptyMap

-----------------------------------------------------------------------------
(* Filter merge applied to every pair of filter maps *)

InitMerge ==
    /\ TurnIdle /\ env = DefaultEnv
    /\ hin \in [A : {Dict(f) : f \in FilterMaps},
                E : {None} \cup {Dict(f) : f \in FilterMaps}]
    /\ hout = <<>>
    /\ hpc = "in"

ApplyMerge ==
    /\ hpc = "in"
    /\ hout' = <<[main |-> MergeFinalFilters(hin.A, hin.E),
                  parser |-> merge_filters(hin.A, hin.E)]>>
    /\ hpc' = "merged"
    /\ UNCHANGED <<hin, tvars>>

ApplyMergeAgain ==
    /\ hpc = "merged"
    /\ hout' = Append(hout, [main |-> MergeFinalFilters(hout[1].main, hin.E),
                             parser |-> merge_filters(hout[1].parser, hin.E)])
    /\ hpc' = "again"
    /\ UNCHANGED <<hin, tvars>>

NextMerge == ApplyMerge \/ ApplyMergeAgain

SpecMerge == InitMerge /\ [][NextMerge]_vars

\* The keys and values a shallow last-write-wins merge of A and E must have.
IsLastWriteWins(M, A, E) ==
    /\ M.t = "dict"
    /\ DOMAIN M.v = DOMAIN A \cup DOMAIN E
    /\ \A k \in DOMAIN E : M.v[k] = E[k]
    /\ \A k \in DOMAIN A \ DOMAIN E : M.v[k] = A[k]

ExplicitMap(E) == IF E.t = "dict" THEN E.v ELSE EmptyMap

\* C7: the merged filters have exactly the keys of A union E, with E's value
\* on every key of E and A's value on every key only in A; this holds of the
\* merge in the /chat handler and of query_parser.merge_filters.
C7_MergeLastWriteWins ==
    hpc \in {"merged", "again"} =>
        /\ IsLastWriteWins(hout[1].main, hin.A.v, ExplicitMap(hin.E))
        /\ IsLastWriteWins(hout[1].parser, hin.A.v, ExplicitMap(hin.E))

\* merge({a:1,b:2},{b:3}) = {a:1,b:3}, on price_max and body_type.
C7_Witness ==
    /\ hpc = "merged"
    /\ hin.A = Dict([price_max |-> "15", body_type |-> "SUV"])
    /\ hin.E = Dict([body_type |-> "Sedan"])
    /\ hout[1].main = Dict([price_max |-> "15", body_type |-> "Sedan"])
    /\ hout[1].parser = hout[1].main

\* C8: merging the same explicit filters a second time changes nothing:
\* merge(merge(A, E), E) = merge(A, E).
C8_MergeIdempotent ==
    hpc = "again" => hout[2] = hout[1]

\* A second application on a pair that shares a key with different values.
C8_Witness ==
    /\ hpc = "again"
    /\ hin.A = Dict([price_max |-> "15", body_type |-> "SUV"])
    /\ hin.E = Dict([body_type |-> "Sedan", fuel_type |-> "Petrol"])
    /\ hout[2].main = Dict([price_max |-> "15", body_type |-> "Sedan",
                            fuel_type |-> "Petrol"])

-----------------------------------------------------------------------------
(* Query understanding applied to every short model text *)

MaxTextLen == 6

Q_Vague == <<"h","a","a","n"," ","a","u","r"," ","b","a","t","a","o">>
Q_Plain == <<"S","U","V"," ","u","n","d","e","r"," ","1","5"," ","l","a","k","h","s">>

TextAlphabet == {"{", "}", "f", "n", "p", "x"}

\* Every text of at most n symbols.
TextsUpTo(n) == UNION {[1..m -> TextAlphabet] : m \in 0..n}

\* Texts as a model writes them: the full answer, the answer wrapped in
\* prose, a filters member that is null or a string, and white space.
CuratedTexts ==
    { <<"{", "i", "f", "{", "p", "b", "}", "k", "}">>,
      <<"x", " ", "{", "i", "f", "{", "p", "}", "K", "}", " ", "x">>,
      <<" ", "{", " ", "f", " ", "{", " ", "}", " ", "}", " ">>,
      <<"{", "i", "f", "n", "k", "}">>,
      <<"{", "i", "f", "s", "k", "}">>,
      <<"{", "i", "k", "}">>,
      <<"{", "i", "f", "{", "p", "b", "k", "}">>,
      <<"}", "i", "{">> }

ProviderOutcomes(texts) ==
    {[kind |-> "raise"], [kind |-> "none"]} \cup {[kind |-> "text", text |-> t] : t \in texts}

\* Past turns: answers without a price, with one, and with "lakhs" but no
\* price; histories of up to MaxPast of them.
MaxPast == 4
PastTurns ==
    { <<Q_Plain, <<"o", "k">>>>,
      <<Q_Vague, <<"₹", "9", ".", "5", " ", "l", "a", "k", "h", "s">>>>,
      <<Q_Plain, <<"₹", "x", " ", "l", "a", "k", "h", "s", " ", "₹", "1", "2", "l", "a", "k", "h", "s">>>>,
      <<Q_Plain, <<"l", "a", "k", "h", "s">>>> }

InitUnderstand ==
    /\ TurnIdle /\ env = DefaultEnv
    /\ \/ hin \in [query : {Q_Plain}, chat_history : {<<>>}, groq : {TRUE}, gemini : {FALSE},
                   outcome : ProviderOutcomes(TextsUpTo(MaxTextLen))]
       \/ hin \in [query : {Q_Vague, Q_Plain}, chat_history : {<<>>},
                   groq : BOOLEAN, gemini : BOOLEAN,
                   outcome : ProviderOutcomes(CuratedTexts)]
       \/ hin \in [query : {Q_Vague},
                   chat_history : UNION {[1..m -> PastTurns] : m \in 1..MaxPast},
                   groq : BOOLEAN, gemini : BOOLEAN,
                   outcome : {[kind |-> "raise"],
                              [kind |-> "text", text |-> <<"x">>],
                              [kind |-> "text",
                               text |-> <<"{", "i", "f", "{", "p", "b", "}", "k", "}">>]}]
    /\ hout = <<>>
    /\ hpc = "in"

ApplyUnderstand ==
    /\ hpc = "in"
    /\ hout' = understand_query_with_llm(hin.query, hin.chat_history, hin.groq, hin.gemini,
                                         hin.outcome)
    /\ hpc' = "understood"
    /\ UNCHANGED <<hin, tvars>>

NextUnderstand == ApplyUnderstand

SpecUnderstand == InitUnderstand /\ [][NextUnderstand]_vars

\* The cases of the claim: no provider, a failed call, a text without "{" or
\* without "}", a text whose braces do not enclose decodable JSON.
UnderstandingFails(in) ==
    \/ ~in.groq /\ ~in.gemini
    \/ in.outcome.kind = "raise"
    \/ /\ in.outcome.kind = "text"
       /\ \/ "{" \notin Range(in.outcome.text)
          \/ "}" \notin Range(in.outcome.text)
          \/ ~JsonLoads(SubSeq(in.outcome.text, Find(in.outcome.text, "{"),
                               RFind(in.outcome.text, "}"))).ok

IsFallbackFor(result, query) ==
    /\ {"filters", "combined_intent", "search_keywords"} \subseteq DOMAIN result
    /\ result["filters"] = Dict(EmptyMap)
    /\ result["combined_intent"] = Str(query)
    /\ result["search_keywords"] = Str(query)

\* C6: understand_query_with_llm always returns (it never raises), and in
\* each failing case it returns filters = {} with combined_intent and
\* search_keywords equal to the original query.
C6_UnderstandNeverRaises ==
    hpc = "understood" =>
        /\ hout.kind = "return"
        /\ UnderstandingFails(hin) => IsFallbackFor(hout.result, hin.query)

\* Braces around text that is no JSON: the fallback is returned.
C6_Witness ==
    /\ hpc = "understood"
    /\ hin.groq
    /\ hin.outcome = [kind |-> "text", text |-> <<"{", "f", "{", "p", "x", "}">>]
    /\ hout.kind = "return"
    /\ IsFallbackFor(hout.result, hin.query)

\* A well-formed answer is decoded, not replaced by the fallback.
C6_DecodedReached ==
    /\ hpc = "understood"
    /\ hin.outcome = [kind |-> "text", text |-> <<"{", "f", "{", "p", "}", "}">>]
    /\ hout.result["filters"] = Dict([price_max |-> "15"])

-----------------------------------------------------------------------------
(* De-duplication applied to every list of up to MaxDocs catalog records   *)

MaxDocs == 3

S_Tata == <<"T","a","t","a">>
S_Nexon == <<"N","e","x","o","n">>
S_Punch == <<"P","u","n","c","h">>
S_XZ == <<"X","Z">>
S_XM == <<"X","M">>

Payload(make, model) == [make |-> Str(make), model |-> Str(model)]
WithVariant(md, variant) ==
    [k \in DOMAIN md \cup {"variant"} |-> IF k = "variant" THEN Str(variant) ELSE md[k]]

\* Payloads of catalog records as the loader may have stored them
\* (mongodb_loader.py:66-67 copies the brand and model text as it is).
CatalogPayloads ==
    { WithVariant(Payload(S_Tata, S_Nexon), S_XZ),
      WithVariant(Payload(S_Tata, S_Nexon), S_XM),
      Payload(S_Tata, S_Punch),
      Payload(<<"T","A","T","A">>, <<"n","e","x","o","n">>),
      Payload(<<" ","T","a","t","a">>, <<"N","e","x","o","n"," ">>),
      Payload(<<"T","a","t","a">>, <<"N","e","x","o","n","_","E","V">>),
      Payload(<<"t","a","t","a">>, <<"N","e","x","o","n"," ","E","V">>),
      Payload(<<"a","|","b">>, <<"c">>),
      Payload(<<"a">>, <<"b","|","c">>),
      [model |-> Str(S_Punch)],
      [make |-> None, model |-> Str(S_Punch)],
      \* records with the attributes of mongodb_loader.py:62-101, an absent
      \* variant being stored as "" (line 68)
      WithVariant(Payload(S_Tata, S_Punch), <<>>),
      [make |-> Str(S_Tata), model |-> Str(S_Nexon), variant |-> Str(<<>>),
       year |-> Num(2024), body_type |-> Str(<<"S","U","V">>),
       price_lakhs |-> Num(9), mileage |-> Num(17)],
      [make |-> Str(S_Tata), model |-> Str(S_Nexon), variant |-> Str(S_XM),
       year |-> Num(2022), segment |-> Str(<<"B">>), fuel_type |-> Str(<<"E","V">>),
       power_bhp |-> Num(0), airbags |-> None, transmission_type |-> Str(<<>>),
       price_lakhs |-> Num(15)] }

\* The points of a search result: payloads in relevance order, the i-th with
\* id i and a description.
PointsOf(payloads) ==
    [i \in 1..Len(payloads) |->
        [k \in DOMAIN payloads[i] \cup {"id", "page_content"} |->
            CASE k = "id" -> Num(i)
              [] k = "page_content" -> Str(<<"c","a","r">>)
              [] OTHER -> payloads[i][k]]]

NexonPayloads ==
    <<WithVariant(Payload(S_Tata, S_Nexon), S_XZ),
      WithVariant(Payload(S_Tata, S_Nexon), S_XM),
      Payload(S_Tata, S_Punch)>>

MaxCatalog == 10

\* The records the collection holds for the query, in relevance order:
\* every list of up to MaxDocs payloads, and longer catalogs, of more than
\* RETRIEVAL_K records, that repeat the three records above.
InitDedup ==
    /\ TurnIdle /\ env = DefaultEnv
    /\ hin \in UNION {[1..n -> CatalogPayloads] : n \in 0..MaxDocs}
          \cup {[i \in 1..n |-> NexonPayloads[((i - 1) % 3) + 1]] :
                   n \in (RETRIEVAL_K - 1)..MaxCatalog}
    /\ hout = <<>>
    /\ hpc = "in"

ApplyDedup ==
    /\ hpc = "in"
    /\ hout' = Dedup(DocsOf(query_points(PointsOf(hin), RETRIEVAL_K)))
    /\ hpc' = "deduped"
    /\ UNCHANGED <<hin, tvars>>

NextDedup == ApplyDedup

SpecDedup == InitDedup /\ [][NextDedup]_vars

\* The canonical key of a payload as a pair: make and model, each lower-cased
\* with underscores turned into spaces and surrounding whitespace removed.
CanonPair(md) ==
    <<CleanName(Get(md, "make", Str(Unknown)).v),
      CleanName(Get(md, "model", Str(Unknown)).v)>>

\* The positions holding the first record of their canonical key.
FirstOfKey(payloads) ==
    {i \in 1..Len(payloads) :
        \A j \in 1..(i - 1) : CanonPair(payloads[j]) # CanonPair(payloads[i])}

\* The n-th smallest element of a set of positions.
NthOf(P, n) == CHOOSE i \in P : Cardinality({j \in P : j < i}) = n - 1

\* The recommendations are the first records of each canonical pair, in
\* retrieval order, and nothing else.
KeepsFirstOfEachPair ==
    /\ Len(hout.recommended) = Cardinality(FirstOfKey(hin))
    /\ \A n \in 1..Len(hout.recommended) :
          /\ hout.recommended[n]["id"] = Num(NthOf(FirstOfKey(hin), n))
          /\ hout.sources[n].metadata["id"] = hout.recommended[n]["id"]
    /\ Len(hout.sources) = Len(hout.recommended)

HasSeparator(md) ==
    \E k \in DOMAIN md : md[k].t = "str" /\ "|" \in Range(md[k].v)

\* C9: de-duplication keeps exactly one recommendation per canonical
\* (make, model) pair - the first retrieved record of the pair - and keeps
\* them in retrieval order.
C9_DedupOnePerKey ==
    (hpc = "deduped" /\ hout.kind = "ok") => KeepsFirstOfEachPair

\* The same statement on the records whose names do not contain the "|" that
\* chain.py:460 joins the key with: there it holds.
C9_DedupOnePerKeyNoSeparator ==
    (hpc = "deduped" /\ hout.kind = "ok"
        /\ \A i \in 1..Len(hin) : ~HasSeparator(hin[i])) => KeepsFirstOfEachPair

\* [(Tata,Nexon,XZ), (Tata,Nexon,XM), (Tata,Punch)] gives Nexon XZ, then Punch.
C9_Example ==
    /\ hpc = "deduped"
    /\ hin = <<WithVariant(Payload(S_Tata, S_Nexon), S_XZ),
               WithVariant(Payload(S_Tata, S_Nexon), S_XM),
               Payload(S_Tata, S_Punch)>>
    /\ hout.kind = "ok"
    /\ Len(hout.recommended) = 2
    /\ hout.recommended[1]["name"] = Str(S_Tata \o <<" ">> \o S_Nexon \o <<" ">> \o S_XZ)
    /\ hout.recommended[2]["name"] = Str(S_Tata \o <<" ">> \o S_Punch)

-----------------------------------------------------------------------------
(* Retrieval applied to every filter map and every pair of search answers  *)

SearchOk(points) == [kind |-> "ok", points |-> points]
SearchErr(msg) == [kind |-> "err", msg |-> msg]

\* What the search layer may answer to one query_points call.
SearchAnswers ==
    { SearchOk(PointsOf(NexonPayloads)), SearchOk(<<>>),
      SearchErr(Msg_IndexRequired), SearchErr(Msg_NotFound), SearchErr(Msg_Timeout) }

InitRetrieve ==
    /\ TurnIdle /\ env = DefaultEnv
    /\ hin \in [filters : {None} \cup {Dict(f) : f \in FilterMaps},
                embed_ok : BOOLEAN, r1 : SearchAnswers, r2 : SearchAnswers]
    /\ hout = <<>>
    /\ hpc = "in"

ApplyRetrieve ==
    /\ hpc = "in"
    /\ hout' = get_relevant_documents(RetrieverFilter(hin.filters), hin.embed_ok,
                                      hin.r1, hin.r2)
    /\ hpc' = "retrieved"
    /\ UNCHANGED <<hin, tvars>>

NextRetrieve == ApplyRetrieve

SpecRetrieve == InitRetrieve /\ [][NextRetrieve]_vars

\* C5: when the first search fails with the missing-index signal, the search
\* is run exactly once more, without the predicate; when that second search
\* succeeds the retriever returns its documents and raises nothing.
C5_FailOpenRetry ==
    (hpc = "retrieved" /\ hin.embed_ok /\ hin.r1 = SearchErr(Msg_IndexRequired)) =>
        /\ hout.searches = <<RetrieverFilter(hin.filters), None>>
        /\ hin.r2.kind = "ok" =>
              /\ hout.kind = "ok"
              /\ hout.docs = DocsOf(hin.r2.points)

\* The filters of test_retriever (price_max, body_type), a missing index, and
\* an unfiltered search that finds the three records.
C5_Witness ==
    /\ hpc = "retrieved"
    /\ hin.filters = Dict([price_max |-> "15", body_type |-> "SUV"])
    /\ hin.embed_ok
    /\ hin.r1 = SearchErr(Msg_IndexRequired)
    /\ hin.r2 = SearchOk(PointsOf(NexonPayloads))
    /\ hout.kind = "ok"
    /\ Len(hout.docs) = 3
    /\ hout.searches[1] # None
    /\ hout.searches[2] = None

-----------------------------------------------------------------------------
(* The /chat handler (main.py:110-200) as a state machine.                 *)
(*                                                                         *)
(* A request is [query, filters, session_id]. A call in flight has a frame *)
(* holding the handler's position (pc) and local variables. The handler    *)
(* is a coroutine on the single event loop of main.py:205; `running` is    *)
(* the call the loop is executing. peers, done, refine_in and failed_at    *)
(* are history fields: the calls in flight when the request arrived, the   *)
(* stages passed, what the refinement met and the stage that raised.       *)

MaxTurns == 2
MaxPending == 2
MaxTurnsLong == 12
MaxHistory == 10
MaxFaults == 1

NoSessionId == "<none>"

Q_VagueUpper == <<"T","e","l","l"," ","M","e"," ","M","o","r","e">>
Q_Expanded == <<"s","u","v"," ","1","5"," ","l","a","k","h">>

Msg_NoCopy == <<"n","o"," ","a","t","t","r","i","b","u","t","e"," ","'","c","o","p","y","'">>
Msg_NoReplace ==
    <<"n","o"," ","a","t","t","r","i","b","u","t","e"," ","'","r","e","p","l","a","c","e","'">>
Msg_Uncaught == <<"p","r","o","v","i","d","e","r"," ","e","r","r","o","r">>
S_DetailPrefix ==
    <<"E","r","r","o","r"," ","p","r","o","c","e","s","s","i","n","g"," ",
      "r","e","q","u","e","s","t",":"," ">>

\* A payload whose brand is null.
BadPayloads == <<[make |-> None, model |-> Str(S_Punch)]>>

\* The process environments: the API keys that are set.
Envs(profile) ==
    {[groq |-> TRUE, gemini |-> FALSE, profile |-> profile],
     [groq |-> FALSE, gemini |-> TRUE, profile |-> profile],
     [groq |-> FALSE, gemini |-> FALSE, profile |-> profile]}

\* What the clients send, per profile. "long": one session, no session id
\* given. "pair": one session, named or not. "full": two sessions, with and
\* without explicit filters.
Requests(e) ==
    CASE e.profile = "long" ->
            [query : {Q_Plain, Q_Vague}, filters : {None}, session_id : {NoSessionId}]
      [] e.profile = "pair" ->
            [query : {Q_Plain, Q_Vague}, filters : {None},
             session_id : {NoSessionId, "default"}]
      [] e.profile = "cache" ->
            [query : {Q_Plain, Q_Vague},
             filters : {None, Dict([body_type |-> "Sedan"])},
             session_id : {"s1"}]
      [] OTHER ->
            {[query |-> Q_Vague, filters |-> None, session_id |-> NoSessionId],
             [query |-> Q_Plain, filters |-> None, session_id |-> "default"],
             [query |-> Q_VagueUpper, filters |-> None, session_id |-> "s1"],
             [query |-> Q_Plain, filters |-> Dict([body_type |-> "Sedan"]),
              session_id |-> "s1"]}

\* main.py:76, hash(str(filters)): the 64-bit hash of the filters' text,
\* given by the set of filter maps that have this hash. Which texts share a
\* hash depends on the seed Python draws per process; e.colliding is the
\* set of maps that share one in this process, every other map has a hash
\* of its own. (str is taken per map: a map of the model has no key order.)
FiltersHash(filters, e) ==
    IF e.profile = "cache" /\ filters \in e.colliding THEN e.colliding ELSE {filters}

\* A plausible slip: the chains are cached per session only.
ChainKeyOfSession(session_id, filters, e) == <<session_id, {}>>

\* main.py:76  f"{session_id}_{hash(str(filters))}". The hash is written in
\* digits, so the last "_" of a key separates its two parts.
ChainKey(session_id, filters, e) == <<session_id, FiltersHash(filters, e)>>

TurnLimit(e) == IF e.profile = "long" THEN MaxTurnsLong ELSE MaxTurns
PendingLimit(e) == IF e.profile = "long" THEN 1 ELSE MaxPending

\* What the collaborators may answer. The first element of each set is the
\* nominal answer, and the only one outside "full".
NominalUnderstanding ==
    [kind |-> "text", text |-> <<"{", "i", "f", "{", "p", "b", "}", "k", "}">>]
UnderstandOutcomes(e) ==
    IF e.profile # "full" THEN {NominalUnderstanding}
    ELSE {NominalUnderstanding,
          [kind |-> "raise"],
          [kind |-> "text", text |-> <<"{", "K", "}">>],
          [kind |-> "text", text |-> <<"{", "f", "n", "k", "}">>]}

NominalExpansion == [kind |-> "decoded", obj |-> [primary_query |-> Q_Expanded]]
ExpansionOutcomes(e) ==
    IF e.profile # "full" THEN {NominalExpansion}
    ELSE {NominalExpansion,
          [kind |-> "raise"],
          [kind |-> "nojson"],
          [kind |-> "decoded",
           obj |-> [primary_query |-> <<" ">>, expanded_queries |-> <<>>]]}

NominalAttempt == Attempt(TRUE, SearchOk(PointsOf(NexonPayloads)), SearchOk(<<>>))
RetrievalAttempts(e) ==
    IF e.profile # "full" THEN {NominalAttempt}
    ELSE {NominalAttempt,
          Attempt(TRUE, SearchErr(Msg_IndexRequired), SearchOk(PointsOf(BadPayloads))),
          Attempt(TRUE, SearchErr(Msg_Timeout), SearchOk(<<>>))}

\* Whether the Ollama server answers get_llm()'s probe.
OllamaAnswers(e) == IF e.profile # "full" THEN {TRUE} ELSE BOOLEAN

NominalAnswer == [kind |-> "text", text |-> <<" ", "o", "k", " ">>]
SynthOutcomes(e) ==
    IF e.profile # "full" THEN {NominalAnswer}
    ELSE {NominalAnswer,
          [kind |-> "raise", msg |-> Msg_Timeout],
          [kind |-> "text", text |-> <<>>]}

NominalRefinement == [kind |-> "text", text |-> <<"S", "u", "r", "e", " ">>]
RefineOutcomes(e) ==
    IF e.profile # "full" THEN {NominalRefinement}
    ELSE {NominalRefinement, [kind |-> "raise"], [kind |-> "none"],
          [kind |-> "text", text |-> <<>>]}

\* The answers a stage of frame f may meet: any of them at up to MaxFaults
\* stages of a call, the nominal one at its other stages.
Choices(f, all, nominal) == IF f.faults < MaxFaults THEN all ELSE {nominal}

\* The frame having met `choice`.
Met(f, choice, nominal) ==
    [f EXCEPT !.faults = IF choice = nominal THEN @ ELSE @ + 1]

\* What the refinement may meet: whether each client that has a key can be
\* constructed, and what the provider call gives.
NominalRefineChoice == <<TRUE, TRUE, NominalRefinement>>
RefineChoices(e) ==
    IF e.profile # "full" THEN {NominalRefineChoice}
    ELSE (IF e.groq THEN BOOLEAN ELSE {TRUE}) \X (IF e.gemini THEN BOOLEAN ELSE {TRUE})
            \X RefineOutcomes(e)

NoResult == [answer |-> <<>>, recommended |-> <<>>, sources |-> <<>>]
NoRefinement == [set |-> FALSE]

\* The frame of a request that has arrived and waits for the event loop.
\* chains_before is not a local of the handler: it records session_chains
\* as the handler found it, for the comparison with what an aborted turn
\* leaves behind.
NewFrame(request, peers) ==
    [pc |-> "Pending", request |-> request, peers |-> peers, done |-> <<>>,
     faults |-> 0,
     session_id |-> "", chat_history |-> <<>>, chains_before |-> EmptyMap,
     auto_filters |-> None, search_keywords |-> None, final_filters |-> None,
     expansion_calls |-> 0, expansion_in |-> NoOutcome, optimized_query |-> <<>>,
     chain_key |-> <<>>, retrieval |-> [attempts |-> 0, swallowed |-> <<>>], docs |-> <<>>,
     prompt_history |-> <<>>, synth_in |-> NoOutcome, raw_answer |-> <<>>,
     source_documents |-> <<>>, result |-> NoResult,
     refine_in |-> NoRefinement, refined_answer |-> <<>>,
     failed_at |-> "", exc |-> <<>>]

\* A plausible slip: the id is taken as it came, without the default.
SessionIdAsGiven(session_id) == session_id

\* A plausible slip: every request works on the one default session.
SessionIdShared(session_id) == "default"

\* main.py:124  request.session_id or "default"
SessionIdOf(session_id) ==
    IF session_id \in {NoSessionId, ""} THEN "default" ELSE session_id

\* A plausible slip: the first ten turns are kept.
TrimHistoryKeepFirst(history) ==
    IF Len(history) > MaxHistory THEN SubSeq(history, 1, MaxHistory) ELSE history

\* main.py:186-187
TrimHistory(history) ==
    IF Len(history) > MaxHistory
    THEN SubSeq(history, Len(history) - MaxHistory + 1, Len(history))
    ELSE history

\* A plausible slip: the handler awaits its remote calls, so that the event
\* loop runs other handlers in between.
YieldsAtCalls(stage) == stage \in {"Understand", "Retrieve", "Synthesize", "Refine"}

\* main.py:110-200: the handler is declared async and contains no await, so
\* the event loop runs it from its first to its last line without running
\* anything else: no stage hands the loop back.
Yields(stage) == FALSE

Without(f, k) == [x \in DOMAIN f \ {k} |-> f[x]]

\* The event loop is executing, or free to resume, call id at `stage`.
AtStage(id, stage) ==
    /\ id \in DOMAIN turns
    /\ turns[id].pc = stage
    /\ running \in {0, id}

\* The frame after a stage: passed on to the next one, or left by an
\* exception that travels to the except clause of main.py:198.
Passed(f, stage, next) == [f EXCEPT !.pc = next, !.done = Append(@, stage)]
Raised(f, stage, msg) == [f EXCEPT !.pc = "Failed", !.failed_at = stage, !.exc = msg]

Step(id, stage, frame) ==
    /\ turns' = [turns EXCEPT ![id] = frame]
    /\ running' = IF Yields(stage) THEN 0 ELSE id

\* A client's POST /chat reaches the server (main.py:109-110).
Submit ==
    /\ nsub < TurnLimit(env)
    /\ Cardinality(DOMAIN turns) < PendingLimit(env)
    /\ \E request \in Requests(env) :
          turns' = Put(turns, nsub + 1, NewFrame(request, DOMAIN turns))
    /\ nsub' = nsub + 1
    /\ UNCHANGED <<session_histories, session_chains, running, last, log, env, hvars>>

\* main.py:120-130: the loop starts the handler, which reads the history.
Receive ==
    \E id \in DOMAIN turns :
        /\ id \in DOMAIN turns
        /\ turns[id].pc = "Pending"
        /\ running = 0
        /\ LET f == turns[id]
               session_id == SessionIdOf(f.request.session_id)
           IN  Step(id, "Receive",
                    [Passed(f, "Receive", "Understand") EXCEPT
                        !.session_id = session_id,
                        !.chat_history = Get(session_histories, session_id, <<>>),
                        !.chains_before = session_chains])
        /\ UNCHANGED <<session_histories, session_chains, nsub, last, log, env, hvars>>

\* main.py:134-139
Understand ==
    \E id \in DOMAIN turns :
        /\ AtStage(id, "Understand")
        /\ \E outcome \in Choices(turns[id], UnderstandOutcomes(env), NominalUnderstanding) :
              LET f == Met(turns[id], outcome, NominalUnderstanding)
                  u == understand_query_with_llm(f.request.query, f.chat_history,
                                                 env.groq, env.gemini, outcome)
              IN  Step(id, "Understand",
                       IF u.kind = "raise"
                       THEN Raised(f, "Understand", Msg_Uncaught)
                       ELSE [Passed(f, "Understand", "Merge") EXCEPT
                                !.auto_filters = Get(u.result, "filters", Dict(EmptyMap)),
                                !.search_keywords =
                                    Get(u.result, "search_keywords", Str(f.request.query))])
        /\ UNCHANGED <<session_histories, session_chains, nsub, last, log, env, hvars>>

\* main.py:145-147: None and a string have no .copy().
Merge ==
    \E id \in DOMAIN turns :
        /\ AtStage(id, "Merge")
        /\ LET f == turns[id]
           IN  Step(id, "Merge",
                    IF f.auto_filters.t # "dict"
                    THEN Raised(f, "Merge", Msg_NoCopy)
                    ELSE [Passed(f, "Merge", "MaybeExpand") EXCEPT
                             !.final_filters =
                                 MergeFinalFilters(f.auto_filters, f.request.filters)])
        /\ UNCHANGED <<session_histories, session_chains, nsub, last, log, env, hvars>>

\* main.py:154-164
MaybeExpand ==
    \E id \in DOMAIN turns :
        /\ AtStage(id, "MaybeExpand")
        /\ LET search_keywords == turns[id].search_keywords.v
               triggered == ExpansionTriggered(turns[id].request.query, search_keywords)
           IN  \E outcome \in (IF triggered
                               THEN Choices(turns[id], ExpansionOutcomes(env), NominalExpansion)
                               ELSE {NominalExpansion}) :
                  Step(id, "MaybeExpand",
                       [Passed(IF triggered
                               THEN Met(turns[id], outcome, NominalExpansion)
                               ELSE turns[id],
                               "MaybeExpand", "GetChain") EXCEPT
                           !.expansion_calls = IF triggered THEN 1 ELSE 0,
                           !.expansion_in = IF triggered THEN outcome ELSE NoOutcome,
                           !.optimized_query =
                               IF triggered
                               THEN OptimizedQuery(search_keywords,
                                        get_best_expanded_query(search_keywords, outcome))
                               ELSE search_keywords])
        /\ UNCHANGED <<session_histories, session_chains, nsub, last, log, env, hvars>>

\* main.py:65-87, 167 and chain.py:298-334. The chain key is made of the
\* session id and the hash of the filters; a new chain takes the model get_llm()
\* returns and a retriever built from the filters.
GetChain ==
    \E id \in DOMAIN turns :
        /\ AtStage(id, "GetChain")
        /\ LET f == [turns[id] EXCEPT !.expansion_in = NoOutcome]
               chain_key == ChainKey(f.session_id, f.final_filters, env)
           IN  IF chain_key \in DOMAIN session_chains
               THEN /\ Step(id, "GetChain",
                            [Passed(f, "GetChain", "Retrieve") EXCEPT !.chain_key = chain_key])
                    /\ UNCHANGED session_chains
               ELSE \E ollama_ok \in Choices(f, OllamaAnswers(env), TRUE) :
                       LET got == get_llm(env.groq, env.gemini, ollama_ok)
                           g == Met(f, ollama_ok, TRUE)
                           qdrant_filter == RetrieverFilter(f.final_filters)
                       IN  IF got.kind = "raise"
                           THEN /\ Step(id, "GetChain", Raised(g, "GetChain", got.msg))
                                /\ UNCHANGED session_chains
                           ELSE IF qdrant_filter.t = "raise"
                           THEN /\ Step(id, "GetChain",
                                        Raised(g, "GetChain", qdrant_filter.msg))
                                /\ UNCHANGED session_chains
                           ELSE /\ Step(id, "GetChain",
                                        [Passed(g, "GetChain", "Retrieve") EXCEPT
                                            !.chain_key = chain_key])
                                /\ session_chains' =
                                     Put(session_chains, chain_key,
                                         [llm |-> got.llm,
                                          qdrant_filter |-> qdrant_filter,
                                          memory |-> <<>>])
        /\ UNCHANGED <<session_histories, nsub, last, log, env, hvars>>

\* chain.py:229, reached from 170 / 428 / 270: the retrieval that feeds the
\* prompt.
Retrieve ==
    \E id \in DOMAIN turns :
        /\ AtStage(id, "Retrieve")
        /\ \E a \in Choices(turns[id], RetrievalAttempts(env) \X RetrievalAttempts(env),
                             <<NominalAttempt, NominalAttempt>>) :
              LET f == Met(turns[id], a, <<NominalAttempt, NominalAttempt>>)
                  chain == session_chains[f.chain_key]
                  r == robust_retrieve(chain.qdrant_filter, a[1], a[2])
                  g == [f EXCEPT !.retrieval =
                           [attempts |-> r.attempts, swallowed |-> r.swallowed]]
              IN  Step(id, "Retrieve",
                       IF r.kind = "raise"
                       THEN Raised(g, "Retrieve", r.msg)
                       ELSE [Passed(g, "Retrieve", "Synthesize") EXCEPT !.docs = r.docs])
        /\ UNCHANGED <<session_histories, session_chains, nsub, last, log, env, hvars>>

\* chain.py:232-251, 270-273: the prompt and the model's answer.
Synthesize ==
    \E id \in DOMAIN turns :
        /\ AtStage(id, "Synthesize")
        /\ \E outcome \in Choices(turns[id], SynthOutcomes(env), NominalAnswer) :
              LET f == Met(turns[id], outcome, NominalAnswer)
                  chain == session_chains[f.chain_key]
                  a == llm_invoke(chain.llm, outcome)
              IN  Step(id, "Synthesize",
                       IF a.kind = "raise"
                       THEN [Raised(f, "Synthesize", a.msg) EXCEPT !.synth_in = outcome]
                       ELSE [Passed(f, "Synthesize", "SourceDocuments") EXCEPT
                                !.retrieval = [attempts |-> 0, swallowed |-> <<>>],
                                !.synth_in = outcome,
                                !.prompt_history =
                                    format_chat_history(
                                        PromptHistory(f.chat_history, chain.memory)),
                                !.raw_answer = a.text])
        /\ UNCHANGED <<session_histories, session_chains, nsub, last, log, env, hvars>>

\* chain.py:276-286: the documents are retrieved once more and the chain's
\* own memory takes the exchange.
SourceDocuments ==
    \E id \in DOMAIN turns :
        /\ AtStage(id, "SourceDocuments")
        /\ \E a \in Choices(turns[id], RetrievalAttempts(env) \X RetrievalAttempts(env),
                             <<NominalAttempt, NominalAttempt>>) :
              LET f == Met(turns[id], a, <<NominalAttempt, NominalAttempt>>)
                  chain == session_chains[f.chain_key]
                  r == robust_retrieve(chain.qdrant_filter, a[1], a[2])
                  g == [f EXCEPT !.docs = <<>>,
                                 !.retrieval =
                                     [attempts |-> r.attempts, swallowed |-> r.swallowed]]
              IN  IF r.kind = "raise"
                  THEN /\ Step(id, "SourceDocuments", Raised(g, "SourceDocuments", r.msg))
                       /\ UNCHANGED session_chains
                  ELSE /\ Step(id, "SourceDocuments",
                               [Passed(g, "SourceDocuments", "PostProcess") EXCEPT
                                   !.source_documents = r.docs])
                       /\ session_chains' =
                            [session_chains EXCEPT ![f.chain_key].memory =
                                MemoryAppend(@, f.optimized_query, f.raw_answer)]
        /\ UNCHANGED <<session_histories, nsub, last, log, env, hvars>>

\* chain.py:431-435
PostProcess ==
    \E id \in DOMAIN turns :
        /\ AtStage(id, "PostProcess")
        /\ LET f == turns[id]
           IN  Step(id, "PostProcess",
                    [Passed(f, "PostProcess", "Dedup") EXCEPT
                        !.retrieval = [attempts |-> 0, swallowed |-> <<>>],
                        !.result.answer = post_process_answer(f.raw_answer)])
        /\ UNCHANGED <<session_histories, session_chains, nsub, last, log, env, hvars>>

\* chain.py:437-533
Deduplicate ==
    \E id \in DOMAIN turns :
        /\ AtStage(id, "Dedup")
        /\ LET f == turns[id]
               d == Dedup(f.source_documents)
           IN  Step(id, "Dedup",
                    IF d.kind = "raise"
                    THEN Raised(f, "Dedup", Msg_NoReplace)
                    ELSE [Passed(f, "Dedup", "Refine") EXCEPT
                             !.result.recommended = d.recommended,
                             !.result.sources = d.sources])
        /\ UNCHANGED <<session_histories, session_chains, nsub, last, log, env, hvars>>

\* main.py:176-181
Refine ==
    \E id \in DOMAIN turns :
        /\ AtStage(id, "Refine")
        /\ \E c \in Choices(turns[id], RefineChoices(env), NominalRefineChoice) :
              LET f == Met(turns[id], c, NominalRefineChoice)
                  init_groq_ok == c[1]
                  init_gemini_ok == c[2]
                  outcome == c[3]
                  r == refine_response_with_llm(f.result.answer, env.groq, env.gemini,
                                                init_groq_ok, init_gemini_ok, outcome)
                  met == [set |-> TRUE, init_groq_ok |-> init_groq_ok,
                          init_gemini_ok |-> init_gemini_ok,
                          outcome |-> IF r.calls = 0 THEN NoOutcome ELSE outcome]
              IN  Step(id, "Refine",
                       IF r.kind = "raise"
                       THEN [Raised(f, "Refine", Msg_Uncaught) EXCEPT !.refine_in = met]
                       ELSE [Passed(f, "Refine", "Commit") EXCEPT
                                !.refine_in = met,
                                !.refined_answer = r.answer])
        /\ UNCHANGED <<session_histories, session_chains, nsub, last, log, env, hvars>>

\* A plausible slip: the turn is stored with the query the chain was asked
\* and the answer the chain gave.
CommitChainExchange ==
    \E id \in DOMAIN turns :
        /\ AtStage(id, "Commit")
        /\ LET f == turns[id]
               turn == <<f.optimized_query, f.result.answer>>
           IN  /\ session_histories' =
                    Put(session_histories, f.session_id,
                        TrimHistory(Append(f.chat_history, turn)))
               /\ log' = Put(log, f.session_id,
                             Append(Get(log, f.session_id, <<>>),
                                    [id |-> id, peers |-> f.peers, turn |-> turn,
                                     filters |-> f.final_filters]))
               /\ Step(id, "Commit", Passed(f, "Commit", "Respond"))
        /\ UNCHANGED <<session_chains, nsub, env, hvars>>
        /\ UNCHANGED last

\* main.py:184-187
Commit ==
    \E id \in DOMAIN turns :
        /\ AtStage(id, "Commit")
        /\ LET f == turns[id]
               turn == <<f.request.query, f.refined_answer>>
           IN  /\ session_histories' =
                    Put(session_histories, f.session_id,
                        TrimHistory(Append(f.chat_history, turn)))
               /\ log' = Put(log, f.session_id,
                             Append(Get(log, f.session_id, <<>>),
                                    [id |-> id, peers |-> f.peers, turn |-> turn,
                                     filters |-> f.final_filters]))
               /\ Step(id, "Commit", Passed(f, "Commit", "Respond"))
        /\ UNCHANGED <<session_chains, nsub, env, hvars>>
        /\ UNCHANGED last

\* What the caller of call id gets, with the frame's history fields.
Outcome(id, f, kind, status, answer, detail) ==
    [kind |-> kind, id |-> id, status |-> status, request |-> f.request,
     session_id |-> f.session_id, answer |-> answer,
     recommended |-> f.result.recommended, sources |-> f.result.sources,
     detail |-> detail,
     rag_answer |-> f.result.answer, refine_in |-> f.refine_in,
     expansion_calls |-> f.expansion_calls, done |-> f.done,
     synth_in |-> f.synth_in, failed_at |-> f.failed_at, exc |-> f.exc,
     history_before |-> f.chat_history,
     history_after |-> Get(session_histories, f.session_id, <<>>)]

\* main.py:192-196
Respond ==
    \E id \in DOMAIN turns :
        /\ AtStage(id, "Respond")
        /\ last' = Outcome(id, turns[id], "response", 200, turns[id].refined_answer, <<>>)
        /\ turns' = Without(turns, id)
        /\ running' = 0
        /\ UNCHANGED <<session_histories, session_chains, nsub, log, env, hvars>>

\* A plausible slip: the failed turn is recorded in the history with the
\* error as its answer.
HandleExceptionRecording ==
    \E id \in DOMAIN turns :
        /\ AtStage(id, "Failed")
        /\ session_histories' =
             Put(session_histories, turns[id].session_id,
                 Append(turns[id].chat_history,
                        <<turns[id].request.query, S_DetailPrefix \o turns[id].exc>>))
        /\ last' = [Outcome(id, turns[id], "error", 500, <<>>, S_DetailPrefix \o turns[id].exc)
                       EXCEPT !.history_after = session_histories'[turns[id].session_id]]
        /\ turns' = Without(turns, id)
        /\ running' = 0
        /\ UNCHANGED <<session_chains, nsub, log, env, hvars>>

\* A plausible slip: a failed turn is started over instead of being answered
\* with the error.
HandleExceptionRetry ==
    \E id \in DOMAIN turns :
        /\ AtStage(id, "Failed")
        /\ Step(id, "Failed",
                [turns[id] EXCEPT !.pc = "Understand", !.failed_at = "", !.exc = <<>>])
        /\ UNCHANGED <<session_histories, session_chains, nsub, last, log, env, hvars>>

\* main.py:198-200
HandleException ==
    \E id \in DOMAIN turns :
        /\ AtStage(id, "Failed")
        /\ last' = Outcome(id, turns[id], "error", 500, <<>>, S_DetailPrefix \o turns[id].exc)
        /\ turns' = Without(turns, id)
        /\ running' = 0
        /\ UNCHANGED <<session_histories, session_chains, nsub, log, env, hvars>>

HarnessIdle ==
    /\ hin = <<>>
    /\ hout = <<>>
    /\ hpc = "idle"

Init ==
    /\ TurnIdle
    /\ env \in Envs("full")
    /\ HarnessIdle

InitLong ==
    /\ TurnIdle
    /\ env = [groq |-> TRUE, gemini |-> FALSE, profile |-> "long"]
    /\ HarnessIdle

Next ==
    \/ Submit
    \/ Receive
    \/ Understand
    \/ Merge
    \/ MaybeExpand
    \/ GetChain
    \/ Retrieve
    \/ Synthesize
    \/ SourceDocuments
    \/ PostProcess
    \/ Deduplicate
    \/ Refine
    \/ Commit
    \/ Respond
    \/ HandleException

Spec == Init /\ [][Next]_vars

InitPair ==
    /\ TurnIdle
    /\ env = [groq |-> TRUE, gemini |-> FALSE, profile |-> "pair"]
    /\ HarnessIdle

\* One session whose requests come with two different filter maps, in a
\* process where the two maps have different hashes or the same one.
InitCache ==
    /\ TurnIdle
    /\ env \in [groq : {TRUE}, gemini : {FALSE}, profile : {"cache"},
                colliding : {{}, {Dict([price_max |-> "15", body_type |-> "SUV"]),
                                  Dict([price_max |-> "15", body_type |-> "Sedan"])}}]
    /\ HarnessIdle

\* The steps when the collaborators answer nominally: no stage raises, so
\* the except clause is not among them.
NextNominal ==
    \/ Submit
    \/ Receive
    \/ Understand
    \/ Merge
    \/ MaybeExpand
    \/ GetChain
    \/ Retrieve
    \/ Synthesize
    \/ SourceDocuments
    \/ PostProcess
    \/ Deduplicate
    \/ Refine
    \/ Commit
    \/ Respond

SpecHist == InitLong /\ [][NextNominal]_vars

SpecPair == InitPair /\ [][NextNominal]_vars

SpecCache == InitCache /\ [][NextNominal]_vars

\* main.py:110-200: what the event loop does with the handlers it holds.
\* Every stage is straight-line code around calls that return or raise, so
\* a handler that can take its next step takes it.
HandlerStep ==
    \/ Receive
    \/ Understand
    \/ Merge
    \/ MaybeExpand
    \/ GetChain
    \/ Retrieve
    \/ Synthesize
    \/ SourceDocuments
    \/ PostProcess
    \/ Deduplicate
    \/ Refine
    \/ Commit
    \/ Respond
    \/ HandleException

\* Some handler can take its next step: the one the loop is running, or,
\* when the loop is free, any it holds. Every stage has a step in every
\* state, so this is the enabling condition of HandlerStep.
HandlerReady ==
    \E id \in DOMAIN turns : (running = id /\ turns[id].pc # "Pending") \/ running = 0

\* The handler under the assumption that every external call returns or
\* raises and the event loop keeps running: weak fairness of HandlerStep,
\* with the enabling condition written out as HandlerReady.
SpecLive ==
    Init /\ [][Next]_vars /\ ([]<>(~HandlerReady) \/ []<><<HandlerStep>>_vars)

-----------------------------------------------------------------------------
(* Properties of the turn handler *)

\* The turns committed on session s, in commit order.
CommittedTurns(s) == [i \in 1..Len(log[s]) |-> log[s][i].turn]

\* The last n elements of a sequence, all of them if there are fewer.
LastUpTo(seq, n) == IF Len(seq) > n THEN SubSeq(seq, Len(seq) - n + 1, Len(seq)) ELSE seq

\* Call id has committed its turn.
Committed(id) == \E s \in DOMAIN log : \E i \in 1..Len(log[s]) : log[s][i].id = id

\* The frame has passed the stage.
HasPassed(done, stage) == \E i \in 1..Len(done) : done[i] = stage

\* C1: after any sequence of committed turns on a session, its stored
\* history has at most 10 turns and is the most recent (up to) 10 committed
\* turns in commit order, so the 11th commit drops exactly the oldest turn.
C1_HistoryIsLastTen ==
    /\ DOMAIN session_histories = DOMAIN log
    /\ \A s \in DOMAIN session_histories :
          /\ Len(session_histories[s]) <= 10
          /\ session_histories[s] = LastUpTo(CommittedTurns(s), 10)

\* An 11th turn has committed on a session whose two oldest turns differ,
\* and the history now starts with the second.
C1_Witness ==
    \E s \in DOMAIN log :
        /\ Len(log[s]) = 11
        /\ log[s][1].turn # log[s][2].turn
        /\ Len(session_histories[s]) = 10
        /\ session_histories[s][1] = log[s][2].turn
        /\ session_histories[s][10] = log[s][11].turn

\* C2: a turn one of whose stages raised never commits: the stored history
\* of its session is the one it found, and its caller gets an error, not a
\* response.
C2_AbortLeavesHistory ==
    /\ \A id \in DOMAIN turns :
          turns[id].pc = "Failed" =>
              /\ ~Committed(id)
              /\ Get(session_histories, turns[id].session_id, <<>>) = turns[id].chat_history
    /\ (last.kind # "none" /\ last.failed_at # "") =>
          /\ last.kind = "error"
          /\ last.status = 500
          /\ ~Committed(last.id)
          /\ last.history_after = last.history_before

\* A turn of a session that already has a turn failed in the last stage
\* that can raise, after the chain was run.
C2_Witness ==
    /\ last.kind = "error"
    /\ last.failed_at = "Dedup"
    /\ last.history_before # <<>>
    /\ session_histories[last.session_id] = last.history_before

\* Two committed turns of a session one of which arrived while the other
\* was in flight.
Concurrent(a, b) == a.id \in b.peers \/ b.id \in a.peers

\* C3: when two calls for the same session were in flight together and
\* both have committed, the stored history holds both turns, in the order
\* of their commits (while neither has been trimmed away).
C3_NoLostUpdate ==
    \A s \in DOMAIN log : \A i, j \in 1..Len(log[s]) :
        (i < j /\ Len(log[s]) - i < 10 /\ Concurrent(log[s][i], log[s][j])) =>
            \E a, b \in 1..Len(session_histories[s]) :
                /\ a < b
                /\ session_histories[s][a] = log[s][i].turn
                /\ session_histories[s][b] = log[s][j].turn

\* Two calls with different utterances for one session were in flight
\* together and both have committed.
C3_Witness ==
    \E s \in DOMAIN log :
        /\ Len(log[s]) = 2
        /\ Concurrent(log[s][1], log[s][2])
        /\ log[s][1].turn # log[s][2].turn
        /\ session_histories[s] = <<log[s][1].turn, log[s][2].turn>>

\* The refinement fails: no client with a key can be constructed, or the
\* provider call raises or gives no content.
RefinementFails(groq, gemini, met) ==
    \/ ~((groq /\ met.init_groq_ok) \/ (gemini /\ met.init_gemini_ok))
    \/ met.outcome.kind # "text"

\* C4: when the refinement fails (no provider configured, the provider
\* cannot be initialised, or its call raises), refine_response_with_llm
\* returns the synthesized answer unchanged, the turn goes on, the response
\* carries that answer, and the turn (query, that answer) is committed.
C4_RefinementFailureKeepsAnswer ==
    /\ nsub = 0 =>
          \A groq \in BOOLEAN, gemini \in BOOLEAN, c \in RefineChoices(DefaultEnv) :
              LET met == [init_groq_ok |-> c[1], init_gemini_ok |-> c[2], outcome |-> c[3]]
                  r == refine_response_with_llm(Apology, groq, gemini, c[1], c[2], c[3])
              IN  RefinementFails(groq, gemini, met) =>
                      r.kind = "return" /\ r.answer = Apology
    /\ \A id \in DOMAIN turns :
          LET f == turns[id]
          IN  (f.refine_in.set /\ RefinementFails(env.groq, env.gemini, f.refine_in)) =>
                  /\ f.pc \in {"Commit", "Respond"}
                  /\ f.refined_answer = f.result.answer
                  /\ f.pc = "Respond" =>
                        /\ Committed(id)
                        /\ session_histories[f.session_id] =
                             Append(f.chat_history, <<f.request.query, f.result.answer>>)
    /\ (last.kind # "none" /\ last.refine_in.set
            /\ RefinementFails(env.groq, env.gemini, last.refine_in)) =>
          /\ last.kind = "response"
          /\ last.answer = last.rag_answer
          /\ Committed(last.id)
          /\ last.history_after =
               Append(last.history_before, <<last.request.query, last.rag_answer>>)

\* A call whose refinement provider raised has answered, in a session that
\* already had a turn.
C4_Witness ==
    /\ last.kind = "response"
    /\ last.refine_in.set
    /\ last.refine_in.outcome.kind = "raise"
    /\ last.history_before # <<>>
    /\ last.answer = last.rag_answer
    /\ Committed(last.id)

\* A call whose refinement client could not be constructed has answered.
C4_InitFailureReached ==
    /\ last.kind = "response"
    /\ last.refine_in.set
    /\ env.groq /\ ~last.refine_in.init_groq_ok
    /\ last.answer = last.rag_answer

\* The vague phrases as the specification lists them.
C10_Phrases ==
    { <<"a","u","r"," ","b","a","t","a","o">>,
      <<"t","e","l","l"," ","m","e"," ","m","o","r","e">>,
      <<"a","n","y"," ","o","t","h","e","r">>,
      <<"h","a","a","n">> }

\* text has one of the phrases as a substring.
HasVaguePhrase(text) ==
    \E p \in C10_Phrases : \E i \in 1..Len(text) :
        i + Len(p) - 1 <= Len(text) /\ SubSeq(text, i, i + Len(p) - 1) = p

\* The expansion ran in the call iff the utterance is vague.
ExpandedIffVague(done, query, expansion_calls) ==
    IF HasPassed(done, "MaybeExpand")
    THEN /\ expansion_calls = 1 <=> HasVaguePhrase(Lower(query))
         /\ query = Q_Vague => expansion_calls = 1
         /\ query = Q_Plain => expansion_calls = 0
    ELSE expansion_calls = 0

\* C10: query expansion is invoked in a turn if and only if the raw
\* utterance, lower-cased, contains one of the vague phrases; the derived
\* search keywords play no part ("haan aur batao" triggers it, "SUV under
\* 15 lakhs" does not).
C10_ExpansionTrigger ==
    /\ \A id \in DOMAIN turns :
          ExpandedIffVague(turns[id].done, turns[id].request.query, turns[id].expansion_calls)
    /\ last.kind # "none" =>
          ExpandedIffVague(last.done, last.request.query, last.expansion_calls)

\* A call whose utterance is plain and whose derived keywords are vague has
\* passed the expansion step without expanding.
C10_Witness ==
    \E id \in DOMAIN turns :
        /\ HasPassed(turns[id].done, "MaybeExpand")
        /\ turns[id].request.query = Q_Plain
        /\ turns[id].search_keywords = Str(KwVague)
        /\ turns[id].expansion_calls = 0

\* A call whose utterance is vague in capitals and whose derived keywords
\* are plain has expanded.
C10_UpperCaseReached ==
    \E id \in DOMAIN turns :
        /\ turns[id].request.query = Q_VagueUpper
        /\ turns[id].search_keywords = Str(KwDerived)
        /\ turns[id].expansion_calls = 1

-----------------------------------------------------------------------------
(* Properties of the stage order and of the fatal stages *)

\* The stages of a turn in the order the specification gives them.
StagesInOrder ==
    <<"Receive", "Understand", "Merge", "MaybeExpand", "Retrieve", "Dedup",
      "Synthesize", "Refine", "Commit", "Respond">>

\* The stage a step of the handler belongs to: the chain is obtained for
\* the retrieval, the documents are retrieved by either retrieval step, and
\* the clean-up of the answer is part of the synthesis.
StageOfStep(step) ==
    CASE step \in {"GetChain", "SourceDocuments"} -> "Retrieve"
      [] step = "PostProcess" -> "Synthesize"
      [] OTHER -> step

RECURSIVE StagesOf(_)
\* The stages a sequence of steps goes through, a stage that lasts several
\* steps counted once.
StagesOf(done) ==
    IF done = <<>> THEN <<>>
    ELSE LET before == StagesOf(SubSeq(done, 1, Len(done) - 1))
             stage == StageOfStep(done[Len(done)])
         IN  IF before # <<>> /\ before[Len(before)] = stage
             THEN before
             ELSE Append(before, stage)

IsPrefix(s, t) == Len(s) <= Len(t) /\ SubSeq(t, 1, Len(s)) = s

\* C11: in every turn the stages run in the order Receive, Understand,
\* Merge, MaybeExpand, Retrieve, Dedup, Synthesize, Refine, Commit, Respond,
\* each at most once.
C11_StagesInSpecOrder ==
    \A id \in DOMAIN turns : IsPrefix(StagesOf(turns[id].done), StagesInOrder)

\* The order the handler follows: the answer is synthesized between two
\* retrievals, and the documents of the second one are de-duplicated.
C11_StagesInCodeOrder ==
    \A id \in DOMAIN turns :
        IsPrefix(turns[id].done,
                 <<"Receive", "Understand", "Merge", "MaybeExpand", "GetChain",
                   "Retrieve", "Synthesize", "SourceDocuments", "PostProcess",
                   "Dedup", "Refine", "Commit">>)

\* C12: when the call of the answering model fails during synthesis, the
\* turn is aborted: the caller gets no answer and the history is not
\* written.
C12_SynthesisFailureAborts ==
    (last.kind \in {"response", "error"} /\ last.synth_in.kind = "raise")
        => /\ last.kind = "error"
           /\ last.history_after = last.history_before

\* With a model whose wrapper does not catch (the Ollama model), a failed
\* call does abort the turn.
C12_UncaughtFailureAborts ==
    (last.kind \in {"response", "error"} /\ last.synth_in.kind = "raise"
        /\ ~env.groq)
        => /\ last.kind = "error"
           /\ last.failed_at = "Synthesize"
           /\ last.history_after = last.history_before

C12_UncaughtFailureReached ==
    ~(last.kind = "error" /\ last.synth_in.kind = "raise" /\ ~env.groq)

\* C13: once the retriever has raised in a retrieval step, the chain does
\* not invoke it again in that step, and the turn aborts.
C13_RetrieverFailureNotRetried ==
    \A id \in DOMAIN turns :
        turns[id].retrieval.swallowed # <<>>
            => /\ turns[id].retrieval.attempts = 1
               /\ turns[id].pc = "Failed"

\* What the chain does: every error of the first invocation is swallowed
\* and the retriever is invoked a second time; only the second error
\* aborts the turn.
C13_SecondFailureAborts ==
    \A id \in DOMAIN turns :
        /\ turns[id].retrieval.attempts <= 2
        /\ (turns[id].pc = "Failed" /\ turns[id].failed_at \in {"Retrieve", "SourceDocuments"})
              => turns[id].retrieval.attempts = 2

\* C14: the error the caller of an aborted turn receives does not contain
\* the text of the internal exception.
C14_ErrorIsGeneric ==
    last.kind = "error" => ~Contains(last.detail, last.exc)

-----------------------------------------------------------------------------
(* Provider resolution, answer clean-up and predicate translation applied *)
(* to every input                                                         *)

MaxAnswerLen == 4
MaxFilterKeys == 3

\* Filter maps as the merge may hand them to the retriever: up to
\* MaxFilterKeys of the fields below, each with a value of its kind, among
\* them empty and list values, and two keys the translation does not know.
FilterInputs ==
    LET values(k) ==
            CASE k = "price_max" -> {"15", "0", "null"}
              [] k = "price_lakhs_max" -> {"10"}
              [] k = "price_min" -> {"5"}
              [] k = "body_type" -> {"SUV", "", "[]", "[SUV,Sedan]", "[,SUV]"}
              [] k = "fuel_type" -> {"Petrol", "[Petrol]", "null"}
              [] k = "segment" -> {"Premium", "null"}
              [] k = "transmission_type" -> {"Manual", "[]"}
              [] k = "year_min" -> {"2020", "null"}
              [] k = "year_max" -> {"2022", "null"}
              [] k = "mileage_min" -> {"15", "null"}
              [] k = "power_bhp_min" -> {"10", "null"}
              [] k = "airbags_min" -> {"5", "null"}
              [] k = "seating_capacity" -> {"7"}
              [] k = "sunroof" -> {"true", "false", "null"}
              [] k = "abs" -> {"true"}
              [] OTHER -> {"Tata"}
        keys == {"price_max", "price_lakhs_max", "price_min", "body_type", "fuel_type",
                 "segment", "transmission_type", "year_min", "year_max", "mileage_min",
                 "power_bhp_min", "airbags_min", "seating_capacity", "sunroof", "abs",
                 "make"}
    IN  UNION {{f \in [D -> UNION {values(k) : k \in D}] : \A k \in D : f[k] \in values(k)} :
                  D \in {E \in SUBSET keys : Cardinality(E) <= MaxFilterKeys}}

\* The inputs. For get_llm(): which keys are set and which providers would
\* answer; OLLAMA_URL has a default (model.py:36), so that Ollama is always
\* configured. For post_process_answer: every short text of blanks and
\* letters, and texts with a role label. For the retriever's predicate: the
\* filter maps of FilterInputs.
\* A plausible slip: the request is sent again as long as the model loads.
HostedLlamaLLM_generate_while_loading(responses) ==
    LET loading(i) == responses[i].kind = "response" /\ responses[i].status = 503
        posts == IF loading(1) THEN (IF loading(2) THEN 3 ELSE 2) ELSE 1
        response == responses[posts]
    IN  IF response.kind = "raise"
        THEN [posts |-> posts, kind |-> "text", text |-> S_ErrorPrefix \o response.msg]
        ELSE IF response.status = 410
        THEN [posts |-> posts, kind |-> "raise", text |-> <<"4", "1", "0">>]
        ELSE IF response.status \notin 200..299
        THEN [posts |-> posts, kind |-> "text", text |-> S_ErrorPrefix \o <<"H", "T", "T", "P">>]
        ELSE [posts |-> posts, kind |-> "text", text |-> response.text]

\* model.py:183-279, HostedLlamaLLM._generate for one prompt. `responses`
\* is what the endpoint gives to the first, second, ... httpx.post: a
\* response with its status (and text), or an exception of the transport.
\* The result carries the number of posts made.
HostedLlamaLLM_generate(responses) ==
    LET posts == IF responses[1].kind = "response" /\ responses[1].status = 503
                 THEN 2 ELSE 1
        response == responses[posts]
    IN  IF response.kind = "raise"
        THEN [posts |-> posts, kind |-> "text", text |-> S_ErrorPrefix \o response.msg]
        ELSE IF response.status = 410
        THEN [posts |-> posts, kind |-> "raise", text |-> <<"4", "1", "0">>]
        ELSE IF response.status \notin 200..299
        THEN [posts |-> posts, kind |-> "text", text |-> S_ErrorPrefix \o <<"H", "T", "T", "P">>]
        ELSE [posts |-> posts, kind |-> "text", text |-> response.text]

\* The alternates a decoded expansion may list, and the queries it may hold:
\* case and blank variants of one query, blank ones, and three others.
MaxAlternates == 3
\* The responses the endpoint has ready, one more than the code ever asks.
MaxPosts == 3

InitAnswering ==
    /\ TurnIdle /\ env = DefaultEnv
    /\ LET ExpansionQueries ==
               {<<"s", "u", "v">>, <<"S", "U", "V">>, <<" ", "s", "u", "v">>, <<" ">>,
                <<>>, <<"e", "v">>, <<"c", "a", "r">>, <<"m", "p", "v">>}
       IN
       hin \in [fn : {"get_llm"}, groq : BOOLEAN, groq_ok : BOOLEAN, gemini : BOOLEAN,
                gemini_ok : BOOLEAN, hf : BOOLEAN, hf_ok : BOOLEAN, ollama_ok : BOOLEAN]
          \cup [fn : {"build_qdrant_filter"}, filters : FilterInputs]
          \cup [fn : {"post_process_answer"},
                answer : UNION {[1..m -> {" ", "o", "k"}] : m \in 0..MaxAnswerLen}
                           \cup {S_Answer, S_Response, S_Answer \o <<" ", "o", "k">>,
                                 <<" ">> \o S_Response \o <<" ">>, S_Answer \o S_Response,
                                 <<"o", "k", " ">> \o S_Answer}]
          \cup [fn : {"expand_query"}, original_query : {<<"s", "u", "v">>, Q_Vague},
                outcome : {[kind |-> "raise"], [kind |-> "nojson"]}
                    \cup {[kind |-> "decoded", obj |-> primary @@ alternates] :
                            primary \in {<<>>} \cup {"primary_query" :> q : q \in ExpansionQueries},
                            alternates \in {<<>>} \cup
                                {"expanded_queries" :> qs :
                                    qs \in UNION {[1..m -> ExpansionQueries] :
                                                    m \in 0..MaxAlternates}}}]
          \cup [fn : {"HostedLlamaLLM._generate"},
                responses : [1..MaxPosts ->
                    [kind : {"response"}, status : {200, 404, 410, 500, 503},
                     text : {<<"o", "k">>}]
                    \cup {[kind |-> "raise", msg |-> Msg_Timeout]}]]
    /\ hout = <<>>
    /\ hpc = "in"

\* model.py:282-385. Neither the health of Groq (the error of the test call
\* is caught inside the wrapper, model.py:105-110) nor anything about Gemini
\* or the hosted endpoint is consulted.
ApplyGetLlm ==
    /\ hpc = "in"
    /\ hin.fn = "get_llm"
    /\ hout' = get_llm(hin.groq, hin.gemini, hin.ollama_ok)
    /\ hpc' = "resolved"
    /\ UNCHANGED <<hin, tvars>>

ApplyPostProcess ==
    /\ hpc = "in"
    /\ hin.fn = "post_process_answer"
    /\ hout' = post_process_answer(hin.answer)
    /\ hpc' = "processed"
    /\ UNCHANGED <<hin, tvars>>

\* retriever.py:379-380
ApplyBuildFilter ==
    /\ hpc = "in"
    /\ hin.fn = "build_qdrant_filter"
    /\ hout' = RetrieverFilter(Dict(hin.filters))
    /\ hpc' = "translated"
    /\ UNCHANGED <<hin, tvars>>

\* query_expansion.py:65-132
ApplyExpandQuery ==
    /\ hpc = "in"
    /\ hin.fn = "expand_query"
    /\ hout' = expand_query(hin.original_query, hin.outcome)
    /\ hpc' = "expanded"
    /\ UNCHANGED <<hin, tvars>>

\* model.py:173-181, HostedLlamaLLM._call: one prompt
ApplyHostedGenerate ==
    /\ hpc = "in"
    /\ hin.fn = "HostedLlamaLLM._generate"
    /\ hout' = HostedLlamaLLM_generate(hin.responses)
    /\ hpc' = "generated"
    /\ UNCHANGED <<hin, tvars>>

NextAnswering ==
    \/ ApplyGetLlm
    \/ ApplyPostProcess
    \/ ApplyBuildFilter
    \/ ApplyExpandQuery
    \/ ApplyHostedGenerate

SpecAnswering == InitAnswering /\ [][NextAnswering]_vars

\* The first provider, in the order Groq, Gemini, hosted endpoint, Ollama,
\* that is configured and healthy.
FirstHealthyProvider(s) ==
    IF s.groq /\ s.groq_ok THEN "groq"
    ELSE IF s.gemini /\ s.gemini_ok THEN "gemini"
    ELSE IF s.hf /\ s.hf_ok THEN "hf"
    ELSE IF s.ollama_ok THEN "ollama"
    ELSE "none"

\* C15: get_llm returns the first provider in the order Groq, Gemini,
\* hosted endpoint, Ollama that is configured and healthy, and fails only
\* when there is none.
C15_FirstHealthyProvider ==
    hpc = "resolved" =>
        IF FirstHealthyProvider(hin) = "none"
        THEN hout.kind = "raise"
        ELSE hout.kind = "ok" /\ hout.llm = FirstHealthyProvider(hin)

\* The cases in which the code agrees with the claimed order: a healthy
\* Groq with its key set, and nothing configured but an unreachable Ollama.
C15_HealthyGroqFirst ==
    hpc = "resolved" =>
        /\ (hin.groq /\ hin.groq_ok) => (hout.kind = "ok" /\ hout.llm = "groq")
        /\ (~hin.groq /\ ~hin.gemini /\ ~hin.hf /\ ~hin.ollama_ok) => hout.kind = "raise"

\* C17: the cleaned answer is never the empty string, whatever the raw
\* output of the model.
C17_AnswerNeverEmpty ==
    hpc = "processed" => hout # <<>>

\* The emptiness test only covers the raw output that is empty itself.
C17_EmptyRawGivesApology ==
    (hpc = "processed" /\ hin.answer = <<>>) => hout = Apology

C17_BlankAfterCleaning ==
    (hpc = "processed" /\ hin.answer # <<>>) =>
        (hout = <<>> <=> \A i \in 1..Len(Remove(Remove(hin.answer, S_Answer), S_Response)) :
                            IsSpace(Remove(Remove(hin.answer, S_Answer), S_Response)[i]))

-----------------------------------------------------------------------------
(* Properties of the turns, continued *)

\* C16: the provider is resolved at startup: no turn is accepted when no
\* provider is configured, and no turn is aborted because the resolution
\* fails while the turn is processed.
C16_ResolutionAtStartup ==
    /\ (~env.groq /\ ~env.gemini) => nsub = 0
    /\ \A id \in DOMAIN turns : turns[id].failed_at # "GetChain"

\* The resolution runs inside the turn that first needs a chain for its
\* session and filters; a turn that finds the chain does not resolve.
C16_ResolutionPerNewChain ==
    \A id \in DOMAIN turns :
        turns[id].failed_at = "GetChain"
            => /\ <<turns[id].session_id, turns[id].final_filters>> \notin DOMAIN session_chains
               /\ ~env.groq
               /\ turns[id].exc = Msg_NoLLM

\* C18: a turn that completes with a response returns a non-empty answer,
\* and the answer committed to the history for it is non-empty.
C18_AnswerNonEmpty ==
    last.kind = "response" =>
        /\ last.answer # <<>>
        /\ last.history_after # <<>>
        /\ last.history_after[Len(last.history_after)][2] # <<>>

\* The answer returned is the one committed, and it is empty only when the
\* refinement call gave an empty text.
C18_EmptyOnlyFromRefinement ==
    last.kind = "response" =>
        /\ last.history_after[Len(last.history_after)] = <<last.request.query, last.answer>>
        /\ last.answer = <<>> =>
              (last.refine_in.outcome.kind = "text" /\ Strip(last.refine_in.outcome.text) = <<>>)

\* The turn of frame f follows, in its session, a committed turn that ran
\* with the filters price_max = 15 and body_type = "SUV".
FollowsSuvUnder15(f) ==
    LET committed == Get(log, f.session_id, <<>>)
    IN  /\ f.chat_history # <<>>
        /\ committed # <<>>
        /\ committed[Len(committed)].turn = f.chat_history[Len(f.chat_history)]
        /\ committed[Len(committed)].turn[1] = Q_Plain
        /\ committed[Len(committed)].filters = Dict([price_max |-> "15", body_type |-> "SUV"])

\* C19: the merged filters of a vague follow-up ("haan aur batao") to a
\* turn that established price_max = 15 and body_type = "SUV" still contain
\* both.
C19_FollowUpKeepsFilters ==
    \A id \in DOMAIN turns :
        (/\ HasPassed(turns[id].done, "Merge")
         /\ turns[id].request.query = Q_Vague
         /\ FollowsSuvUnder15(turns[id]))
            => /\ Get(turns[id].final_filters.v, "price_max", "") = "15"
               /\ Get(turns[id].final_filters.v, "body_type", "") = "SUV"

\* The follow-up is reached, and has the two filters when the understanding
\* model repeats them in its output for this turn.
C19_FollowUpReached ==
    ~(\E id \in DOMAIN turns :
        /\ HasPassed(turns[id].done, "Merge")
        /\ turns[id].request.query = Q_Vague
        /\ FollowsSuvUnder15(turns[id])
        /\ turns[id].final_filters = Dict([price_max |-> "15", body_type |-> "SUV"]))

C20_ResponseListsAligned ==
    last.kind = "response" =>
        /\ Len(last.recommended) = Len(last.sources)
        /\ \A i \in 1..Len(last.sources) :
              last.recommended[i].id = last.sources[i].metadata.id

-----------------------------------------------------------------------------
(* Properties of the sessions *)

\* C21: the stored history of a session is created when the first turn for
\* its id commits, changes only at the Commit step of a turn for that id,
\* and is never removed: it is never empty and its length never decreases.
C21_SessionLifecycle ==
    [][/\ \A s \in DOMAIN session_histories :
             /\ session_histories[s] # <<>>
             /\ s \in DOMAIN session_histories'
             /\ Len(session_histories'[s]) >= Len(session_histories[s])
       /\ \A s \in DOMAIN session_histories' \ DOMAIN session_histories :
             Len(session_histories'[s]) = 1
       /\ session_histories' # session_histories =>
             \E id \in DOMAIN turns :
                 /\ turns[id].pc = "Commit"
                 /\ id \in DOMAIN turns' /\ turns'[id].pc = "Respond"
                 /\ \A s \in DOMAIN session_histories' \ {turns[id].session_id} :
                       /\ s \in DOMAIN session_histories
                       /\ session_histories'[s] = session_histories[s]]_vars

\* A session holds a turn, and a later turn of that session was aborted
\* after it had found the history.
C21_Witness ==
    /\ \E s \in DOMAIN session_histories : Len(session_histories[s]) = 1
    /\ last.kind = "error"
    /\ last.history_before # <<>>
    /\ last.history_after = last.history_before

\* C22: a request without session_id works on the session "default": it
\* reads the history stored under "default", commits there, and changes no
\* other session's history.
C22_DefaultSession ==
    /\ [](\A id \in DOMAIN turns :
            (turns[id].request.session_id = NoSessionId /\ turns[id].pc # "Pending") =>
                /\ turns[id].session_id = "default"
                /\ turns[id].pc \notin {"Respond"} =>
                      turns[id].chat_history = Get(session_histories, "default", <<>>)
                /\ turns[id].pc = "Respond" =>
                      session_histories["default"] =
                          TrimHistory(Append(turns[id].chat_history,
                                             <<turns[id].request.query,
                                               turns[id].refined_answer>>)))
    /\ [][\A id \in DOMAIN turns :
            (turns[id].request.session_id = NoSessionId /\ turns[id].pc = "Commit"
                /\ id \in DOMAIN turns' /\ turns'[id].pc = "Respond") =>
                \A s \in DOMAIN session_histories' \ {"default"} :
                    /\ s \in DOMAIN session_histories
                    /\ session_histories'[s] = session_histories[s]]_vars

\* A request without session_id was answered after it had found, and
\* extended, the history a request naming "default" had committed.
C22_Witness ==
    /\ last.kind = "response"
    /\ last.request.session_id = NoSessionId
    /\ last.session_id = "default"
    /\ last.history_before # <<>>
    /\ last.history_before[1][1] = Q_Plain
    /\ Len(session_histories["default"]) = 2

\* C23: whatever text the understanding model returns, the turn gets past
\* Merge with a filters map; it is never aborted because of that output.
C23_MalformedOutputNotPropagated ==
    \A id \in DOMAIN turns :
        /\ turns[id].failed_at \notin {"Understand", "Merge"}
        /\ HasPassed(turns[id].done, "Merge") => turns[id].final_filters.t = "dict"

\* An output without braces, an undecodable one and an object without a
\* "filters" member are recovered; the turn is aborted at Merge exactly when
\* the decoded "filters" member is not an object.
C23_AbortedOnNonObjectFilters ==
    \A id \in DOMAIN turns :
        /\ turns[id].failed_at # "Understand"
        /\ turns[id].failed_at = "Merge" <=>
              (HasPassed(turns[id].done, "Understand") /\ turns[id].pc = "Failed"
                 /\ turns[id].auto_filters.t # "dict")
        /\ turns[id].failed_at = "Merge" => turns[id].exc = Msg_NoCopy

-----------------------------------------------------------------------------
(* Properties of the retriever, continued *)

\* C24: the search is repeated without predicate only when the failed
\* search had a predicate and failed with the unindexed-field signal.
C24_RetryOnlyForMissingIndex ==
    (hpc = "retrieved" /\ Len(hout.searches) = 2) =>
        /\ hout.searches[1] # None
        /\ hin.r1.kind = "err"
        /\ Contains(hin.r1.msg, S_IndexRequired)

\* What the test of retriever.py:437 does: the search is repeated for every
\* error whose message has "Index required" or, in any case, "not found",
\* whether or not the failed search had a predicate.
C24_RetryOnMessage ==
    (hpc = "retrieved" /\ hin.embed_ok) =>
        (Len(hout.searches) = 2 <=>
            (hin.r1.kind = "err" /\ IsMissingIndexError(hin.r1.msg)))

C24_RetryWithoutPredicateReached ==
    ~(hpc = "retrieved" /\ hout.searches = <<None, None>>
        /\ hin.r1 = SearchErr(Msg_NotFound))

-----------------------------------------------------------------------------
(* Properties of the predicate translation *)

\* The conditions of a translated predicate.
ConditionsOf(predicate) == IF predicate.t = "filter" THEN predicate.must ELSE <<>>

\* The conditions on one attribute.
ConditionsOn(predicate, key) ==
    {i \in 1..Len(ConditionsOf(predicate)) : ConditionsOf(predicate)[i].key = key}

\* The item attribute a filter field constrains.
AttributeOf(k) ==
    CASE k \in {"price_min", "price_max", "price_lakhs_min", "price_lakhs_max"} -> "price_lakhs"
      [] k \in {"year_min", "year_max"} -> "year"
      [] k = "mileage_min" -> "mileage"
      [] k = "power_bhp_min" -> "power_bhp"
      [] k = "airbags_min" -> "airbags"
      [] OTHER -> k

C25_NoPredicateReached ==
    ~(/\ hpc = "translated"
      /\ hin.fn = "build_qdrant_filter"
      /\ hin.filters = [body_type |-> "[]", sunroof |-> "false", make |-> "Tata"]
      /\ hout = None)

\* The fields of the data model.
StructuredFields ==
    {"price_min", "price_max", "body_type", "fuel_type", "segment", "mileage_min",
     "seating_capacity", "transmission_type", "year_min", "year_max"}

\* C26: every field of the data model that is present with a non-empty
\* value has a condition on its attribute in the predicate.
C26_EveryFieldHasCondition ==
    (hpc = "translated" /\ hout.t # "raise") =>
        \A k \in StructuredFields \cap DOMAIN hin.filters :
            (~Falsy(hin.filters[k]) /\ hin.filters[k] # "[,SUV]") =>
                ConditionsOn(hout, AttributeOf(k)) # {}

\* Every field but seating_capacity has its condition.
C26_EveryFieldButSeating ==
    (hpc = "translated" /\ hout.t # "raise") =>
        \A k \in (StructuredFields \ {"seating_capacity"}) \cap DOMAIN hin.filters :
            (~Falsy(hin.filters[k]) /\ hin.filters[k] # "[,SUV]") =>
                ConditionsOn(hout, AttributeOf(k)) # {}


-----------------------------------------------------------------------------
(* Query expansion (query_expansion.py:65-150)                             *)

\* The candidates of a decoded expansion, in the order of
\* query_expansion.py:116, and the positions of those that are not blank and
\* differ, lower-cased and trimmed, from every earlier one.
AllQueriesOf(original_query, obj) ==
    <<Get(obj, "primary_query", original_query)>>
        \o Get(obj, "expanded_queries", <<original_query>>)
FirstSeen(all_queries) ==
    {i \in 1..Len(all_queries) :
        /\ Strip(Lower(all_queries[i])) # <<>>
        /\ \A j \in 1..(i - 1) :
              Strip(Lower(all_queries[j])) # Strip(Lower(all_queries[i]))}

\* What every returned list satisfies: at most ExpansionMax candidates, the
\* first-seen ones in their order, no two equal when case is ignored.
DistinctInOrder(candidates, all_queries) ==
    /\ Len(candidates) =
          (IF Cardinality(FirstSeen(all_queries)) > ExpansionMax
           THEN ExpansionMax ELSE Cardinality(FirstSeen(all_queries)))
    /\ \A k \in 1..Len(candidates) :
          \E i \in FirstSeen(all_queries) :
              /\ candidates[k] = all_queries[i]
              /\ Cardinality({j \in FirstSeen(all_queries) : j < i}) = k - 1
    /\ \A k \in 1..Len(candidates) : \A l \in 1..Len(candidates) :
          k # l => Lower(candidates[k]) # Lower(candidates[l])

\* C27: expand_query returns between 1 and 3 candidates: the primary query
\* first whenever it is not blank, then the alternates, without the blank
\* ones and without those that repeat an earlier one when case and
\* surrounding blanks are ignored, in first-seen order; no two returned
\* candidates are equal ignoring case.
C27_OneToThreeCandidates ==
    (hpc = "expanded") =>
        /\ Len(hout) \in 1..ExpansionMax
        /\ hin.outcome.kind = "decoded" =>
              LET all_queries == AllQueriesOf(hin.original_query, hin.outcome.obj)
              IN  /\ DistinctInOrder(hout, all_queries)
                  /\ Strip(all_queries[1]) # <<>> => hout[1] = all_queries[1]

\* C27, as the code has it: the list is empty exactly when every candidate
\* of the decoded output is blank; otherwise it is as the claim says.
C27_UpToThreeCandidates ==
    (hpc = "expanded") =>
        IF hin.outcome.kind = "decoded"
        THEN LET all_queries == AllQueriesOf(hin.original_query, hin.outcome.obj)
             IN  /\ DistinctInOrder(hout, all_queries)
                 /\ Strip(all_queries[1]) # <<>> => hout[1] = all_queries[1]
                 /\ hout = <<>> <=>
                       \A i \in 1..Len(all_queries) : Strip(all_queries[i]) = <<>>
        ELSE hout = <<hin.original_query>>

\* A decoded output with more than three distinct candidates was cut to
\* three, a repeated one in another case having been dropped.
C27_Witness ==
    /\ hpc = "expanded"
    /\ hin.outcome.kind = "decoded"
    /\ Len(hout) = ExpansionMax
    /\ Cardinality(FirstSeen(AllQueriesOf(hin.original_query, hin.outcome.obj)))
          > ExpansionMax

\* A decoded output whose candidates are all blank gave no candidate.
C27_NoCandidateReached ==
    /\ hpc = "expanded"
    /\ hin.outcome.kind = "decoded"
    /\ hout = <<>>


\* C28: expansion is best-effort. When the expansion model cannot be
\* obtained, its call fails or its output holds no decodable object,
\* expand_query returns the keyword string alone and the turn retrieves with
\* the search keywords; no turn is aborted at the expansion stage; and the
\* retrieval query is the first candidate (or the keywords when there is no
\* candidate or the first one is the keywords), never a later candidate.
C28_ExpansionBestEffort ==
    /\ last.kind = "error" => last.failed_at # "MaybeExpand"
    /\ \A id \in DOMAIN turns :
          LET f == turns[id]
              search_keywords == f.search_keywords.v
              candidates == expand_query(search_keywords, f.expansion_in)
          IN  /\ f.failed_at # "MaybeExpand"
              /\ (f.pc = "GetChain" /\ f.expansion_calls = 1) =>
                    /\ f.expansion_in.kind \in {"raise", "nojson"} =>
                          /\ candidates = <<search_keywords>>
                          /\ f.optimized_query = search_keywords
                    /\ f.optimized_query =
                          (IF candidates # <<>> /\ candidates[1] # <<>>
                           THEN candidates[1] ELSE search_keywords)

\* A vague turn whose expansion call failed stands before the chain lookup
\* with its search keywords as the query.
C28_Witness ==
    \E id \in DOMAIN turns :
        /\ turns[id].pc = "GetChain"
        /\ turns[id].expansion_calls = 1
        /\ turns[id].expansion_in.kind = "raise"
        /\ turns[id].optimized_query = turns[id].search_keywords.v

\* A vague turn whose expansion gave two candidates retrieves with the first.
C28_FirstOfTwoReached ==
    \E id \in DOMAIN turns :
        /\ turns[id].pc = "GetChain"
        /\ turns[id].expansion_in.kind = "decoded"
        /\ Len(expand_query(turns[id].search_keywords.v, turns[id].expansion_in)) = 2
        /\ turns[id].optimized_query =
              expand_query(turns[id].search_keywords.v, turns[id].expansion_in)[1]
        /\ turns[id].optimized_query # turns[id].search_keywords.v


-----------------------------------------------------------------------------
(* The hosted provider (model.py:159-279)                                  *)

\* C29: a hosted-provider call answered with the "model loading" status 503
\* is sent again exactly once; a second 503, any other status without
\* success and a transport error are not sent again, so one completion
\* request makes at most two provider calls, and makes two exactly when the
\* first answer was 503.
C29_ResentOnceOnLoading ==
    (hpc = "generated") =>
        /\ hout.posts \in 1..2
        /\ hout.posts = 2 <=>
              (hin.responses[1].kind = "response" /\ hin.responses[1].status = 503)

\* The endpoint answered 503 twice: two calls were made and the completion
\* is the error text.
C29_Witness ==
    /\ hpc = "generated"
    /\ hin.responses[1].kind = "response" /\ hin.responses[1].status = 503
    /\ hin.responses[2].kind = "response" /\ hin.responses[2].status = 503
    /\ hout.posts = 2
    /\ hout.kind = "text"
    /\ IsPrefix(S_ErrorPrefix, hout.text)


-----------------------------------------------------------------------------
(* The recommendation of a kept document (chain.py:471-512)                *)

\* The documents the loop of chain.py:443 runs over, and the positions of
\* those that are the first of their key (the key of chain.py:460).
DedupInput == DocsOf(query_points(PointsOf(hin), RETRIEVAL_K))
KeyOfDoc(doc) ==
    ModelKey(Get(doc.metadata, "make", Str(Unknown)).v,
             Get(doc.metadata, "model", Str(Unknown)).v)
RetainedPositions(docs) ==
    {i \in 1..Len(docs) : \A j \in 1..(i - 1) : KeyOfDoc(docs[j]) # KeyOfDoc(docs[i])}

\* The retained item has a variant: the key is there with a non-empty value.
HasVariant(md) == "variant" \in DOMAIN md /\ md["variant"] \notin {None, Str(<<>>), Num(0)}

\* What a recommendation built from the item md alone is.
BuiltFrom(rec, md) ==
    LET make == Get(md, "make", Str(Unknown)).v
        model == Get(md, "model", Str(Unknown)).v
    IN  /\ rec["name"] = Str(make \o <<" ">> \o model
                             \o (IF HasVariant(md) THEN <<" ">> \o md["variant"].v ELSE <<>>))
        /\ {"id", "price", "mileage"} \subseteq DOMAIN rec
        /\ rec["id"] = Get(md, "id", Str(<<>>))
        /\ rec["price"] = Get(md, "price_lakhs", Num(0))
        /\ rec["mileage"] = Get(md, "mileage", Num(0))
        /\ "variant" \in DOMAIN rec <=> HasVariant(md)
        /\ \A k \in OptionalCarKeys : k \in DOMAIN rec <=> k \in DOMAIN md
        /\ \A k \in (OptionalCarKeys \cup {"variant"}) \cap DOMAIN rec : rec[k] = md[k]

\* C30: the n-th recommendation is built from the n-th retained document,
\* the first of its key, alone: its name is make and model, followed by the
\* variant exactly when that document has a non-empty variant; it carries
\* id, price and mileage; it carries the variant exactly when the document
\* has a non-empty one, and year, body_type, segment, fuel_type, power_bhp,
\* airbags and transmission_type exactly when the document has the key,
\* each with the document's value, never one of a dropped document.
C30_BuiltFromRetainedItem ==
    (hpc = "deduped" /\ hout.kind = "ok") =>
        /\ Len(hout.recommended) = Cardinality(RetainedPositions(DedupInput))
        /\ \A n \in 1..Len(hout.recommended) :
              BuiltFrom(hout.recommended[n],
                        DedupInput[NthOf(RetainedPositions(DedupInput), n)].metadata)

\* A Nexon without variant, of 2024, was retained and the Nexon XM of 2022
\* dropped: the recommendation is named "Tata Nexon", has no variant, and
\* has the year and body type of the first and none of the attributes the
\* second alone has.
C30_Witness ==
    /\ hpc = "deduped" /\ hout.kind = "ok"
    /\ Len(hin) = 2
    /\ Len(hout.recommended) = 1
    /\ "variant" \in DOMAIN hin[1] /\ hin[1]["variant"] = Str(<<>>)
    /\ "year" \in DOMAIN hin[1]
    /\ "fuel_type" \in DOMAIN hin[2] /\ hin[2]["variant"] = Str(S_XM)
    /\ hout.recommended[1]["name"] = Str(S_Tata \o <<" ">> \o S_Nexon)
    /\ "variant" \notin DOMAIN hout.recommended[1]
    /\ hout.recommended[1]["year"] = Num(2024)
    /\ "fuel_type" \notin DOMAIN hout.recommended[1]

\* An attribute whose key is there with an empty value (no airbags value, an
\* empty transmission) is carried as it is.
C30_EmptyAttributeCarried ==
    /\ hpc = "deduped" /\ hout.kind = "ok"
    /\ Len(hout.recommended) = 1
    /\ "airbags" \in DOMAIN hout.recommended[1]
    /\ hout.recommended[1]["airbags"] = None
    /\ hout.recommended[1]["transmission_type"] = Str(<<>>)


-----------------------------------------------------------------------------
(* Query understanding: calls and history (query_understanding.py:118-215) *)

\* C31: a call of understand_query_with_llm makes at most one model call -
\* none after a provider error or an undecodable output, and none to the
\* other provider - and the prompt of that call holds lines of at most the
\* last 3 turns of the history, in order, each beginning with the turn's
\* query; with an empty history it holds none and the call is made as well.
C31_SingleAttemptLastThree ==
    (hpc = "understood") =>
        /\ hout.kind = "return"
        /\ hout.calls = Len(hout.prompts)
        /\ hout.calls = (IF hin.groq \/ hin.gemini THEN 1 ELSE 0)
        /\ \A c \in 1..Len(hout.prompts) :
              LET n == Len(hin.chat_history)
                  shown == hout.prompts[c].history
              IN  /\ hout.prompts[c].provider = (IF hin.groq THEN "groq" ELSE "gemini")
                  /\ Len(shown) = (IF n > 3 THEN 3 ELSE n)
                  /\ \A i \in 1..Len(shown) :
                        /\ shown[i][1].role = "User"
                        /\ shown[i][1].text = hin.chat_history[n - Len(shown) + i][1]
                        /\ \A l \in 2..Len(shown[i]) : shown[i][l].role = "Assistant"

\* Both keys are set, the history has four turns and the Groq call fails:
\* one call was made, to Groq, with three turns in its prompt, and the
\* fallback is returned.
C31_Witness ==
    /\ hpc = "understood"
    /\ hin.groq /\ hin.gemini
    /\ Len(hin.chat_history) = 4
    /\ hin.outcome.kind = "raise"
    /\ hout.calls = 1
    /\ hout.prompts[1].provider = "groq"
    /\ Len(hout.prompts[1].history) = 3
    /\ hout.result["filters"] = Dict(EmptyMap)

\* With an empty history the call is made with no history line.
C31_EmptyHistoryReached ==
    /\ hpc = "understood"
    /\ hin.chat_history = <<>>
    /\ hout.calls = 1
    /\ hout.prompts[1].history = <<>>
    /\ "filters" \in DOMAIN hout.result
    /\ hout.result["filters"] # Dict(EmptyMap)

\* An answer with a price is shown to the model as that price only.
C31_PriceLineReached ==
    /\ hpc = "understood"
    /\ hout.calls = 1
    /\ \E i \in 1..Len(hout.prompts[1].history) :
          /\ Len(hout.prompts[1].history[i]) = 2
          /\ hout.prompts[1].history[i][2].text = <<"₹", "1", "2">>


-----------------------------------------------------------------------------
(* Effects of a turn on the process-wide state                             *)

\* The session a request names: its session_id, or "default" without one.
SessionNamed(request) ==
    IF request.session_id \in {NoSessionId, ""} THEN "default" ELSE request.session_id

\* C32: no step of a turn for session A, its commit and its abort included,
\* changes the stored history of another session B: B has a history after
\* the step exactly when it had one before, and it is the same.
C32_OtherSessionsUntouched ==
    [][\A id \in DOMAIN turns :
          (id \notin DOMAIN turns' \/ turns'[id] # turns[id]) =>
              \A B \in (DOMAIN session_histories \cup DOMAIN session_histories')
                          \ {SessionNamed(turns[id].request)} :
                  /\ B \in DOMAIN session_histories
                  /\ B \in DOMAIN session_histories'
                  /\ session_histories'[B] = session_histories[B]]_vars

\* Session "default" holds a turn, and a turn of session "s1" was aborted.
C32_Witness ==
    /\ "default" \in DOMAIN session_histories
    /\ last.kind = "error"
    /\ last.session_id = "s1"
    /\ "s1" \notin DOMAIN session_histories

\* Both sessions hold a turn, a turn of "s1" having committed after one of
\* "default".
C32_BothSessionsReached ==
    /\ {"default", "s1"} \subseteq DOMAIN session_histories
    /\ last.kind = "response"
    /\ last.session_id = "s1"


\* C33: once a turn has committed, the last entry of its session's history
\* is the pair of the caller's utterance as it came and the answer of the
\* turn's response - the refined answer - whatever the query the chain was
\* asked and whatever the chain answered.
C33_LastEntryIsExchange ==
    /\ \A id \in DOMAIN turns :
          turns[id].pc = "Respond" =>
              LET h == Get(session_histories, turns[id].session_id, <<>>)
              IN  /\ h # <<>>
                  /\ h[Len(h)] = <<turns[id].request.query, turns[id].refined_answer>>
    /\ last.kind = "response" =>
          /\ last.history_after # <<>>
          /\ last.history_after[Len(last.history_after)] = <<last.request.query, last.answer>>

\* A vague turn whose query was expanded and whose answer was refined has
\* committed: the history ends with the utterance and the refined answer.
C33_Witness ==
    \E id \in DOMAIN turns :
        LET f == turns[id]
            h == Get(session_histories, f.session_id, <<>>)
        IN  /\ f.pc = "Respond"
            /\ f.optimized_query # f.request.query
            /\ f.refined_answer # f.result.answer
            /\ h # <<>>
            /\ h[Len(h)] = <<f.request.query, f.refined_answer>>
            /\ h[Len(h)] # <<f.optimized_query, f.result.answer>>


-----------------------------------------------------------------------------
(* The history of the synthesis prompt (chain.py:177-222, 264-267, 422-428) *)

\* The last n turns of a history.
LastTurns(history, n) ==
    IF Len(history) > n THEN SubSeq(history, Len(history) - n + 1, Len(history)) ELSE history

\* C34: the history written into the synthesis prompt of a turn is the last
\* 5 turns of the session's committed history as the turn read it at its
\* start; a session without a committed turn gives an empty history, also
\* when the chain of the session and filters was used before.
C34_PromptHistoryFromSession ==
    \A id \in DOMAIN turns :
        turns[id].pc = "SourceDocuments" =>
            turns[id].prompt_history = LastTurns(turns[id].chat_history, 5)

\* C34, as the code has it: a non-empty session history is handed to the
\* chain; with an empty one the chain takes its own memory, which holds
\* every exchange the chain answered, committed or not.
C34_PromptHistoryOrMemory ==
    \A id \in DOMAIN turns :
        turns[id].pc = "SourceDocuments" =>
            turns[id].prompt_history =
                LastTurns(IF turns[id].chat_history # <<>>
                          THEN turns[id].chat_history
                          ELSE session_chains[turns[id].chain_key].memory, 5)

\* The prompt of a turn whose session has no committed turn holds an
\* exchange of an earlier, aborted turn.
C34_MemoryInPromptReached ==
    \E id \in DOMAIN turns :
        /\ turns[id].pc = "SourceDocuments"
        /\ turns[id].chat_history = <<>>
        /\ turns[id].session_id \notin DOMAIN session_histories
        /\ turns[id].prompt_history # <<>>


-----------------------------------------------------------------------------
(* The documents of the prompt and of the response (chain.py:224-240,      *)
(* 264-286, 430-443)                                                       *)

\* C35: the documents the recommendations and sources of a turn are made
\* from are the documents that were written into its synthesis prompt: the
\* step that yields source_documents yields the documents retrieved for the
\* prompt.
C35_OneRetrievalResult ==
    [][\A id \in DOMAIN turns :
          (turns[id].pc = "SourceDocuments" /\ id \in DOMAIN turns'
              /\ turns'[id].pc = "PostProcess") =>
                  turns'[id].source_documents = turns[id].docs]_vars

\* C35, as the code has it: the documents of the response come from a second
\* retrieval made after the answer; they are the prompt's documents when
\* that retrieval met no failure of the search layer.
C35_SecondRetrievalReported ==
    [][\A id \in DOMAIN turns :
          (turns[id].pc = "SourceDocuments" /\ id \in DOMAIN turns'
              /\ turns'[id].pc = "PostProcess"
              /\ turns[id].docs = DocsOf(PointsOf(NexonPayloads))
              /\ turns'[id].retrieval.swallowed = <<>>
              /\ turns'[id].faults = turns[id].faults) =>
                  turns'[id].source_documents = turns[id].docs]_vars

\* A turn answered from three documents reports other documents.
C35_OtherDocumentsReached ==
    \E id \in DOMAIN turns :
        /\ turns[id].pc = "PostProcess"
        /\ turns[id].retrieval.attempts > 0
        /\ turns[id].source_documents # DocsOf(PointsOf(NexonPayloads))
        /\ turns[id].faults = 1
        /\ "Synthesize" \in Range(turns[id].done)


-----------------------------------------------------------------------------
(* The chain cache (main.py:65-87, retriever.py:356-392)                   *)

C36_ChainPredicateWithoutCollision ==
    (env.profile = "cache" => env.colliding = {}) =>
        \A id \in DOMAIN turns :
            turns[id].chain_key # <<>> =>
                session_chains[turns[id].chain_key].qdrant_filter =
                    RetrieverFilter(turns[id].final_filters)

\* A session has two chains, one per filter map.
C36_TwoChainsReached ==
    /\ Cardinality(DOMAIN session_chains) = 2
    /\ \A k \in DOMAIN session_chains : k[1] = "s1"

\* A turn took its chain from the cache.
C36_CachedChainReached ==
    /\ \E id \in DOMAIN turns :
          /\ turns[id].pc = "Retrieve"
          /\ session_chains[turns[id].chain_key].memory # <<>>
          /\ session_chains[turns[id].chain_key].qdrant_filter =
                RetrieverFilter(turns[id].final_filters)

\* A turn with the Sedan filter runs on the chain built for the SUV filter.
C36_SharedChainReached ==
    \E id \in DOMAIN turns :
        /\ turns[id].pc = "Retrieve"
        /\ turns[id].final_filters = Dict([price_max |-> "15", body_type |-> "Sedan"])
        /\ session_chains[turns[id].chain_key].qdrant_filter =
              RetrieverFilter(Dict([price_max |-> "15", body_type |-> "SUV"]))


-----------------------------------------------------------------------------
(* What an aborted turn leaves in the chain cache (main.py:65-87, 198-200;  *)
(* chain.py:275-286, 443-460)                                               *)

\* C37: when a turn is aborted, the chain cache has the entries it had when
\* the turn began, and every cached chain's memory has the content it had.
C37_AbortLeavesChains ==
    \A id \in DOMAIN turns :
        turns[id].pc = "Failed" => session_chains = turns[id].chains_before

\* C37, as the code has it: an aborted turn removes no chain and shortens
\* no memory below what a trim allows; a turn aborted before it got its
\* chain leaves the cache as it was.
C37_AbortKeepsOrAdds ==
    \A id \in DOMAIN turns :
        turns[id].pc = "Failed" =>
            /\ DOMAIN turns[id].chains_before \subseteq DOMAIN session_chains
            /\ turns[id].chain_key = <<>> => session_chains = turns[id].chains_before
            /\ \A k \in DOMAIN turns[id].chains_before :
                  /\ session_chains[k].llm = turns[id].chains_before[k].llm
                  /\ session_chains[k].qdrant_filter = turns[id].chains_before[k].qdrant_filter
                  /\ k # turns[id].chain_key =>
                        session_chains[k].memory = turns[id].chains_before[k].memory

\* A turn is aborted after it created its chain.
C37_NewChainLeftReached ==
    \E id \in DOMAIN turns :
        /\ turns[id].pc = "Failed"
        /\ turns[id].chain_key \in DOMAIN session_chains \ DOMAIN turns[id].chains_before

\* A turn is aborted after its exchange went into the memory of a chain
\* that existed before.
C37_MemoryLeftReached ==
    \E id \in DOMAIN turns :
        /\ turns[id].pc = "Failed"
        /\ turns[id].chain_key \in DOMAIN turns[id].chains_before
        /\ session_chains[turns[id].chain_key].memory #
              turns[id].chains_before[turns[id].chain_key].memory

\* A turn is aborted with the cache as it found it, chains included.
C37_UnchangedAbortReached ==
    \E id \in DOMAIN turns :
        /\ turns[id].pc = "Failed"
        /\ session_chains = turns[id].chains_before
        /\ session_chains # EmptyMap

-----------------------------------------------------------------------------
(* Termination of a turn (main.py:109-200, chain.py:70-103,                 *)
(* retriever.py:428-454)                                                    *)

\* The stages a handler has passed are pairwise different, a retrieval has
\* made at most two attempts and the expansion at most one call.
BoundedWork(f) ==
    /\ \A i, j \in 1..Len(f.done) : f.done[i] = f.done[j] => i = j
    /\ f.retrieval.attempts <= 2
    /\ f.expansion_calls <= 1

\* Call id has got its outcome: a response or an error.
Terminated(id) ==
    /\ id \notin DOMAIN turns
    /\ last.kind \in {"response", "error"}
    /\ last.id = id

\* A step gives an outcome only to a handler that is at its return or in its
\* except clause, and that handler is gone afterwards; a new handler gets an
\* id no handler had before.
OneOutcomeStep ==
    /\ \A id \in DOMAIN turns' \ DOMAIN turns : id = nsub + 1 /\ nsub' = id
    /\ \A id \in DOMAIN turns \ DOMAIN turns' :
          /\ last'.kind = (IF turns[id].pc = "Respond" THEN "response" ELSE "error")
          /\ turns[id].pc \in {"Respond", "Failed"}
          /\ last'.id = id
    /\ last' # last => \E id \in DOMAIN turns \ DOMAIN turns' : last'.id = id

\* C38: every received turn ends with exactly one outcome, a response or an
\* error, having passed no stage twice and retried no call beyond its one
\* repetition.
C38_TurnTerminates ==
    /\ [](\A id \in DOMAIN turns : BoundedWork(turns[id]))
    /\ [][OneOutcomeStep]_vars
    /\ \A id \in 1..MaxTurns :
          (id \in DOMAIN turns /\ turns[id].pc # "Pending") ~> Terminated(id)

\* A received turn has passed all its stages and ended with a response,
\* while another call waits for the event loop.
C38_Witness ==
    /\ last.kind = "response"
    /\ last.id \notin DOMAIN turns
    /\ "SourceDocuments" \in Range(last.done)
    /\ \E id \in DOMAIN turns : turns[id].pc = "Pending"

\* A turn has ended with an error after its retrieval was tried twice.
C38_ErrorAfterRetryReached ==
    /\ last.kind = "error"
    /\ last.id \notin DOMAIN turns
    /\ last.failed_at = "Retrieve"

-----------------------------------------------------------------------------
(* Null values in the predicate translation (retriever.py:196-218, 269-324) *)

\* The filter map without the fields whose value is null.
WithoutNulls(filters) ==
    [k \in {x \in DOMAIN filters : filters[x] # "null"} |-> filters[k]]

\* The fields the translation tests for presence only.
PresenceTested == {"year_min", "year_max", "mileage_min", "power_bhp_min", "airbags_min"}

\* C39: the translation of a filter map is the translation of the map
\* without its null fields: a null field adds no condition and raises
\* nothing.
C39_NullLikeAbsent ==
    (hpc = "translated" /\ hin.fn = "build_qdrant_filter" /\ hin.filters # EmptyMap) =>
        hout = build_qdrant_filter(WithoutNulls(hin.filters))

\* C39, as the code has it: the same for a map in which no year, mileage,
\* power or airbag field is null; with such a field the translation raises.
C39_NullLikeAbsentWhereTestedForTruth ==
    (hpc = "translated" /\ hin.fn = "build_qdrant_filter" /\ hin.filters # EmptyMap) =>
        IF \E k \in PresenceTested \cap DOMAIN hin.filters : hin.filters[k] = "null"
        THEN hout.t = "raise"
        ELSE hout = build_qdrant_filter(WithoutNulls(hin.filters))

\* A map with a null year_max and a body type has been translated.
C39_NullYearReached ==
    /\ hpc = "translated" /\ hin.fn = "build_qdrant_filter"
    /\ DOMAIN hin.filters = {"year_max", "body_type"}
    /\ hin.filters["year_max"] = "null"
    /\ hin.filters["body_type"] = "SUV"
    /\ hout.t = "raise"

\* A map with a null price, a null fuel type and a null flag has been
\* translated to no predicate.
C39_NullsPassedOverReached ==
    /\ hpc = "translated" /\ hin.fn = "build_qdrant_filter"
    /\ DOMAIN hin.filters = {"price_max", "fuel_type", "sunroof"}
    /\ \A k \in DOMAIN hin.filters : hin.filters[k] = "null"
    /\ hout = None
====
